---- MODULE Spec2Model ----
(***************************************************************************)
(* State-machine model of the TODO application's persistence layer:        *)
(*   - the main process store (src/src/electron.cjs): the sqlite tables,   *)
(*     the shared connection, and the five IPC handlers run statement by   *)
(*     statement (every `await run/get/all` is one step);                  *)
(*   - the renderer's synchronisation layer (src/src/App.tsx): local       *)
(*     state, the debounce maps, the date effect and the attachment        *)
(*     continuations.                                                      *)
(* JSON columns are kept as token sequences so that stringify / parse /    *)
(* LIKE are computed, not assumed.                                         *)
(***************************************************************************)
EXTENDS Integers, Sequences, FiniteSets, TLC

\* ------------------------------------------------------------------ bounds
\* Number of calls a caller makes on the store (each advances the wall clock
\* by one tick).
MaxCalls == 4

Ids == {"t1", "t2"}
\* "" is what a cleared <input type="date"> delivers and what
\* String(todo.date ?? "") stores for a record without a date.
Dates == {"", "d1", "d2"}

\* ------------------------------------------------------------ JSON columns
Q == "\""
EmptyArr == <<"[", "]">>

JsonStr(s) == <<Q, s, Q>>

RECURSIVE JoinItems(_)
JoinItems(items) ==
  IF Len(items) = 0 THEN <<>>
  ELSE IF Len(items) = 1 THEN items[1]
  ELSE items[1] \o <<",">> \o JoinItems(Tail(items))

JsonPair(k, v) == JsonStr(k) \o <<":">> \o JsonStr(v)

JsonObj2(k1, v1, k2, v2) ==
  <<"{">> \o JsonPair(k1, v1) \o <<",">> \o JsonPair(k2, v2) \o <<"}">>

\* JSON.stringify of an array, by column type:
\*   refs: string[]; rels: {toId, type}[]; attachments: {id, path}[]
JsonStringify(col, v) ==
  <<"[">> \o
  JoinItems([i \in 1..Len(v) |->
     CASE col = "refs" -> JsonStr(v[i])
       [] col = "rels" -> JsonObj2("toId", v[i].toId, "type", v[i].type)
       [] OTHER        -> JsonObj2("id", v[i].id, "path", v[i].path)])
  \o <<"]">>

\* toJsonArray(value): Array.isArray(value) ? value : []   (absent field = undefined)
toJsonArray(todo, col) ==
  IF col \in DOMAIN todo THEN JsonStringify(col, todo[col]) ELSE EmptyArr

Punct == {"[", "]", "{", "}", ",", ":", Q}

IsStrAt(text, p) ==
  /\ p + 2 <= Len(text)
  /\ text[p] = Q /\ text[p + 2] = Q /\ text[p + 1] \notin Punct

IsObjAt(text, p, k1, k2) ==
  /\ p + 16 <= Len(text)
  /\ text[p] = "{" /\ text[p + 16] = "}"
  /\ IsStrAt(text, p + 1) /\ text[p + 2] = k1 /\ text[p + 4] = ":"
  /\ IsStrAt(text, p + 5) /\ text[p + 8] = ","
  /\ IsStrAt(text, p + 9) /\ text[p + 10] = k2 /\ text[p + 12] = ":"
  /\ IsStrAt(text, p + 13)

ItemWidth(col) == IF col = "refs" THEN 3 ELSE 17

ItemOk(col, text, p) ==
  CASE col = "refs" -> IsStrAt(text, p)
    [] col = "rels" -> IsObjAt(text, p, "toId", "type")
    [] OTHER        -> IsObjAt(text, p, "id", "path")

ItemAt(col, text, p) ==
  CASE col = "refs" -> text[p + 1]
    [] col = "rels" -> [toId |-> text[p + 6], type |-> text[p + 14]]
    [] OTHER        -> [id |-> text[p + 6], path |-> text[p + 14]]

\* the variant `Array.isArray(v) ? v : [v]`: a value that is not an array is
\* wrapped instead of dropped
safeJsonParseArray_Wraps(col, text) ==
  LET w == ItemWidth(col)
      n == (Len(text) - 1) \div (w + 1)
      pos(i) == 2 + (i - 1) * (w + 1)
  IN IF Len(text) = w /\ ItemOk(col, text, 1) THEN <<ItemAt(col, text, 1)>>
     ELSE IF /\ Len(text) >= 2
             /\ text[1] = "[" /\ text[Len(text)] = "]"
             /\ \/ Len(text) = 2
                \/ /\ Len(text) = 2 + n * (w + 1) - 1
                   /\ \A i \in 1..n : ItemOk(col, text, pos(i))
                   /\ \A i \in 1..(n - 1) : text[pos(i) + w] = ","
     THEN IF Len(text) = 2 THEN <<>> ELSE [i \in 1..n |-> ItemAt(col, text, pos(i))]
     ELSE <<>>

\* safeJsonParseArray(text): JSON.parse, [] when the text does not parse or
\* is not an array.
safeJsonParseArray(col, text) ==
  LET w == ItemWidth(col)
      n == (Len(text) - 1) \div (w + 1)
      pos(i) == 2 + (i - 1) * (w + 1)
  IN IF /\ Len(text) >= 2
        /\ text[1] = "[" /\ text[Len(text)] = "]"
        /\ \/ Len(text) = 2
           \/ /\ Len(text) = 2 + n * (w + 1) - 1
              /\ \A i \in 1..n : ItemOk(col, text, pos(i))
              /\ \A i \in 1..(n - 1) : text[pos(i) + w] = ","
     THEN IF Len(text) = 2 THEN <<>> ELSE [i \in 1..n |-> ItemAt(col, text, pos(i))]
     ELSE <<>>

\* SQL:  text LIKE '%"<id>"%'
Like(text, id) ==
  \E p \in 1..(Len(text) - 2) :
     text[p] = Q /\ text[p + 1] = id /\ text[p + 2] = Q

\* ----------------------------------------------------------- small helpers
Field(obj, k, dflt) == IF k \in DOMAIN obj THEN obj[k] ELSE dflt

NotId(ref, id) == ref # id
NotToId(rel, id) == rel.toId # id
NotId2(t, id) == t.id # id
HasDate(t, d) == t.date = d
NotAtt(a, id) == a.id # id

\* the callback given to Array.prototype.filter, named by the test it makes
Keep(test, e, x) ==
  CASE test = "NotId" -> NotId(e, x)
    [] test = "NotToId" -> NotToId(e, x)
    [] test = "NotId2" -> NotId2(e, x)
    [] test = "HasDate" -> HasDate(e, x)
    [] test = "NotAtt" -> NotAtt(e, x)

RECURSIVE SelectSeq2(_, _, _)
\* Array.prototype.filter with a two-argument test
SelectSeq2(s, test, x) ==
  IF Len(s) = 0 THEN <<>>
  ELSE (IF Keep(test, s[1], x) THEN <<s[1]>> ELSE <<>>) \o SelectSeq2(Tail(s), test, x)

SeqRange(s) == {s[i] : i \in 1..Len(s)}

AllOrders(S) ==
  {s \in [1..Cardinality(S) -> S] :
     \A i, j \in 1..Cardinality(S) : i # j => s[i] # s[j]}


\* ------------------------------------------------------------------- state
VARIABLES
  \* main process (electron.cjs)
  db,             \* `db` is non-null
  dbInitPromise,  \* `dbInitPromise` is non-null
  schema,         \* tables that exist in the database file
  todos,          \* table todos: id -> row (id is the PRIMARY KEY)
  meta,           \* table meta: key -> value
  txn,            \* the connection's open transaction: <<>> or <<snapshot>>
  calls,          \* IPC invocations being handled, in arrival order
  clock,          \* wall clock (new Date()), in ticks
  \* renderer (App.tsx)
  inbox,          \* ipcRenderer.invoke messages on their way to the main process
  selectedDate,
  selectedId,     \* "" is null
  dayTodos,       \* state dayTodos (dayTodosRef.current follows it after every render)
  summaryTodos,
  pendingSaves,   \* pendingSavesRef: id -> snapshot
  saveTimers,     \* saveTimersRef: the ids that have a handle in the map
  timeouts,       \* the browser's live setTimeout callbacks, counted per record id
  effs,           \* runs of the selectedDate effect, the last one is the active one
  fileOps,        \* attachment handlers awaiting the file bridge
  nextUid,        \* how many ids uid() has handed out
  gestures,       \* number of user gestures so far
  nextAtt,        \* how many attachment ids uid() has handed out
  deleted,        \* ids deleteTodo has been called for
  burst,          \* id -> the edits scheduled since the last dispatch or cancel:
                  \*       how many (n) and the record of the last one
  failed          \* some store call has rejected

storeVars == <<db, dbInitPromise, schema, todos, meta, txn>>

clientVars == <<inbox, selectedDate, selectedId, dayTodos, summaryTodos, pendingSaves,
                saveTimers, timeouts, effs, fileOps, nextUid, gestures, nextAtt, deleted,
                burst, failed>>

vars == <<storeVars, calls, clock, clientVars>>

NoTodos == [i \in {} |-> 0]

NoBurst == [n |-> 0, last |-> <<>>]

\* the main process after start-up: no connection, a fresh database file
MainInit ==
  /\ db = FALSE
  /\ dbInitPromise = FALSE
  /\ schema = {}
  /\ todos = [i \in {} |-> 0]
  /\ meta = [i \in {} |-> 0]
  /\ txn = <<>>
  /\ clock = 0

\* a renderer that does nothing
ClientIdle ==
  /\ inbox = <<>>
  /\ selectedDate = "d1"
  /\ selectedId = ""
  /\ dayTodos = <<>>
  /\ summaryTodos = <<>>
  /\ pendingSaves = [i \in {} |-> 0]
  /\ saveTimers = {}
  /\ timeouts = [i \in Ids |-> 0]
  /\ effs = <<>>
  /\ fileOps = <<>>
  /\ nextUid = 0
  /\ gestures = 0
  /\ nextAtt = 0
  /\ deleted = {}
  /\ burst = [i \in Ids |-> NoBurst]
  /\ failed = FALSE


\* ------------------------------------------------------- SQL on table todos
\* parameters of the INSERT in upsertTodoRow
UpsertParams(todo, now) ==
  [id          |-> todo.id,
   title       |-> Field(todo, "title", ""),
   content     |-> Field(todo, "content", ""),
   status      |-> Field(todo, "status", "TODO"),
   date        |-> Field(todo, "date", ""),
   ord         |-> Field(todo, "order", 0),
   refs        |-> toJsonArray(todo, "refs"),
   rels        |-> toJsonArray(todo, "rels"),
   attachments |-> toJsonArray(todo, "attachments"),
   createdAt   |-> Field(todo, "createdAt", now),
   updatedAt   |-> Field(todo, "updatedAt", now)]

\* variants of the conflict clause with one slip each
OnConflictUpdate_KeepsDate(old, excluded) ==
  [excluded EXCEPT !.createdAt = old.createdAt, !.date = old.date]

OnConflictUpdate_AddsOrd(old, excluded) ==
  [excluded EXCEPT !.createdAt = old.createdAt, !.ord = old.ord + excluded.ord]

\* the variant that merges: a column the new record leaves empty keeps the
\* stored value
OnConflictUpdate_Merges(old, excluded) ==
  [excluded EXCEPT !.createdAt = old.createdAt,
                   !.rels = IF excluded.rels = EmptyArr THEN old.rels ELSE excluded.rels]

\* the variant that sets every column, createdAt included
OnConflictUpdate_All(old, excluded) == excluded

\* ON CONFLICT(id) DO UPDATE SET <every column but id and createdAt>
OnConflictUpdate(old, excluded) == [excluded EXCEPT !.createdAt = old.createdAt]

\* INSERT INTO todos ... ON CONFLICT(id) DO UPDATE ...
InsertOrUpdate(t, p) ==
  IF p.id \in DOMAIN t
  THEN [t EXCEPT ![p.id] = OnConflictUpdate(t[p.id], p)]
  ELSE [i \in DOMAIN t \cup {p.id} |-> IF i = p.id THEN p ELSE t[i]]

\* DELETE FROM todos WHERE id = ?
DeleteWhereId(t, id) == [i \in DOMAIN t \ {id} |-> t[i]]

\* ORDER BY ord ASC, updatedAt ASC
OrdThenUpdated(a, b) ==
  \/ a.ord < b.ord
  \/ a.ord = b.ord /\ a.updatedAt <= b.updatedAt

\* ORDER BY date ASC, ord ASC, updatedAt ASC  (dates compare as text:
\* "" < "d1" < "d2")
DateRank(d) == CASE d = "" -> 0 [] d = "d1" -> 1 [] OTHER -> 2

DateOrdThenUpdated(a, b) ==
  \/ DateRank(a.date) < DateRank(b.date)
  \/ a.date = b.date /\ OrdThenUpdated(a, b)

\* rows.map(...) of loadTodosByDate: a stored row as the object sent back
RowToTodo(r) ==
  [id          |-> r.id,
   title       |-> r.title,
   content     |-> r.content,
   status      |-> r.status,
   date        |-> r.date,
   order       |-> r.ord,
   refs        |-> safeJsonParseArray("refs", r.refs),
   rels        |-> safeJsonParseArray("rels", r.rels),
   attachments |-> safeJsonParseArray("attachments", r.attachments),
   createdAt   |-> r.createdAt,
   updatedAt   |-> r.updatedAt]

\* rows.map(...) of loadTodoSummaryIndex
RowToSummary(r) ==
  [id        |-> r.id,
   title     |-> r.title,
   status    |-> r.status,
   date      |-> r.date,
   order     |-> r.ord,
   createdAt |-> r.createdAt,
   updatedAt |-> r.updatedAt]

\* the ORDER BY clause of a query, named by the handler that runs it
OrderBy(q, a, b) ==
  IF q = "byDate" THEN OrdThenUpdated(a, b) ELSE DateOrdThenUpdated(a, b)

\* all orderings of a finite set of rows that respect the ORDER BY of query q
SortedSeqs(S, q) ==
  {s \in [1..Cardinality(S) -> S] :
     /\ \A i, j \in 1..Cardinality(S) : i # j => s[i] # s[j]
     /\ \A i, j \in 1..Cardinality(S) : i < j => OrderBy(q, s[i], s[j])}

\* SELECT ... FROM todos WHERE date = ? ORDER BY ord ASC, updatedAt ASC:
\* every result the query may produce (rows that tie come in any order)
ByDateResults(t, d) ==
  LET S == {t[i] : i \in {j \in DOMAIN t : t[j].date = d}}
  IN {[k \in 1..Len(s) |-> RowToTodo(s[k])] : s \in SortedSeqs(S, "byDate")}

\* ipcMain.handle("todos:byDate"): every reply byDate(d) may give on table t
ByDateReply(t, d) == IF d = "" THEN {<<>>} ELSE ByDateResults(t, d)

\* SELECT ... FROM todos ORDER BY date ASC, ord ASC, updatedAt ASC
SummaryResults(t) ==
  LET S == {t[i] : i \in DOMAIN t}
  IN {[k \in 1..Len(s) |-> RowToSummary(s[k])] : s \in SortedSeqs(S, "summary")}

\* the candidate scan without `OR rels LIKE ?`
CascadeCandidates_RefsOnly(t, id) ==
  LET S == {[id |-> t[i].id, refs |-> t[i].refs, rels |-> t[i].rels] :
              i \in {j \in DOMAIN t : Like(t[j].refs, id)}}
  IN AllOrders(S)

\* SELECT id, refs, rels FROM todos WHERE refs LIKE ? OR rels LIKE ?
\* (no ORDER BY: the rows come in any order)
CascadeCandidates(t, id) ==
  LET S == {[id |-> t[i].id, refs |-> t[i].refs, rels |-> t[i].rels] :
              i \in {j \in DOMAIN t : Like(t[j].refs, id) \/ Like(t[j].rels, id)}}
  IN AllOrders(S)

\* the loop body of deleteTodoRow for one candidate row
NextRefs(row, id) == SelectSeq2(safeJsonParseArray("refs", row.refs), "NotId", id)
NextRels(row, id) == SelectSeq2(safeJsonParseArray("rels", row.rels), "NotToId", id)

NeedsUpdate(row, id) ==
  /\ row.id # id
  /\ \/ JsonStringify("refs", NextRefs(row, id)) # row.refs
     \/ JsonStringify("rels", NextRels(row, id)) # row.rels

\* index of the next candidate the loop issues an UPDATE for, 0 when none
NextCascade(rows, from, id) ==
  LET K == {k \in from..Len(rows) : NeedsUpdate(rows[k], id)}
  IN IF K = {} THEN 0 ELSE CHOOSE k \in K : \A m \in K : k <= m

\* UPDATE todos SET refs = ?, rels = ?, updatedAt = ? WHERE id = ?
CascadeUpdate(t, row, id, now) ==
  IF row.id \in DOMAIN t
  THEN [t EXCEPT ![row.id] =
          [@ EXCEPT !.refs = JsonStringify("refs", NextRefs(row, id)),
                    !.rels = JsonStringify("rels", NextRels(row, id)),
                    !.updatedAt = now]]
  ELSE t

\* index of the next item of updateTodoOrders that is not skipped, 0 when none
NextOrderItem(updates, from) ==
  LET K == {k \in from..Len(updates) : Field(updates[k], "id", "") # ""}
  IN IF K = {} THEN 0 ELSE CHOOSE k \in K : \A m \in K : k <= m

\* the variant that stores a row for an id that has none
OrderUpdate_Inserts(t, item, now) ==
  InsertOrUpdate(t, IF item.id \in DOMAIN t
                    THEN [t[item.id] EXCEPT !.ord = Field(item, "order", 0),
                                            !.updatedAt = Field(item, "updatedAt", now)]
                    ELSE UpsertParams([id |-> item.id, order |-> Field(item, "order", 0)], now))

\* UPDATE todos SET ord = ?, updatedAt = ? WHERE id = ?
OrderUpdate(t, item, now) ==
  IF item.id \in DOMAIN t
  THEN [t EXCEPT ![item.id] =
          [@ EXCEPT !.ord = Field(item, "order", 0),
                    !.updatedAt = Field(item, "updatedAt", now)]]
  ELSE t

\* INSERT OR REPLACE INTO meta(key,value) VALUES('updatedAt', ?)
TouchMeta(m, now) ==
  [k \in DOMAIN m \cup {"updatedAt"} |-> IF k = "updatedAt" THEN now ELSE m[k]]


\* ---------------------------------------------------- IPC handlers (main)
\* One entry of `calls` is one running handler.  pc names the statement the
\* handler has issued and is waiting for; a step executes that statement on
\* the shared connection and runs the handler up to its next await.
\*   pre / again are bookkeeping for the properties (the table as it was on
\*   arrival; "this call repeats the previous one").
\*   tag names the caller's continuation: k is "caller" (a direct caller),
\*   "timer", "flush", "load", "summary" or "void"; e is the run of the date
\*   effect the message belongs to (for "flush" and "load" the run that sent
\*   it, otherwise the run that was current); late says that deleteTodo had
\*   been called for the record when an upsert for it was sent, n how many
\*   edits that upsert carries.
\*   fault is the statement of this call that the database engine fails
\*   (disk full, I/O error, file is not a database): <<pc, k>>, NoFault when
\*   every statement succeeds; premeta is table meta as it was on arrival.
NoFault == <<"none", 0>>

Tag(k, e) == [k |-> k, e |-> e, late |-> FALSE, n |-> 0]

NewCall(op, arg, tag, pre) ==
  [op |-> op, arg |-> arg, tag |-> tag, pc |-> "new", res |-> "none",
   rows |-> <<>>, now |-> 0, k |-> 0, pre |-> pre, again |-> FALSE,
   fault |-> NoFault, premeta |-> <<>>]

\* the statement the handler is waiting for is the one that fails
Fails(c) == c.fault = <<c.pc, c.k>>

Returned(c, res) == [c EXCEPT !.pc = "ret", !.res = res]

\* an argument of updateOrders that is not an array (null, an object, a
\* string), as one distinguished value
NotAnArray == <<[notAnArray |-> TRUE]>>

\* Array.isArray(updates)
IsArray(updates) == updates # NotAnArray

\* the handler body between `await initTodoStore()` and its first statement
EnterHandler(c, now) ==
  CASE c.op = "upsert" ->
         \* if (!todo || !todo.id) return false
         IF Field(c.arg, "id", "") = "" THEN Returned(c, "false")
         ELSE [c EXCEPT !.pc = "insert", !.now = now]
    [] c.op = "delete" ->
         \* if (!id) return false
         IF c.arg = "" THEN Returned(c, "false")
         ELSE [c EXCEPT !.pc = "select"]
    [] c.op = "updateOrders" ->
         \* if (!Array.isArray(updates) || updates.length === 0) return true
         IF ~IsArray(c.arg) \/ Len(c.arg) = 0 THEN Returned(c, "true")
         ELSE [c EXCEPT !.pc = "begin", !.now = now]
    [] OTHER -> [c EXCEPT !.pc = "select"]

\* ipcMain.handle(...): the handler starts; `await initTodoStore()` either
\* falls through (db set), waits for the running initialisation, or starts it
ArriveCall(c) ==
  IF c.op = "byDate" /\ c.arg = ""
  THEN \* if (!selectedDate) return []
       /\ calls' = Append(calls, [Returned(c, "rows") EXCEPT !.rows = <<>>])
       /\ UNCHANGED dbInitPromise
  ELSE IF db
  THEN /\ calls' = Append(calls, EnterHandler(c, clock))
       /\ UNCHANGED dbInitPromise
  ELSE IF dbInitPromise
  THEN /\ calls' = Append(calls, [c EXCEPT !.pc = "awaitInit"])
       /\ UNCHANGED dbInitPromise
  ELSE /\ calls' = Append(calls, [c EXCEPT !.pc = "open"])
       /\ dbInitPromise' = TRUE

Arrive(op, arg, tag, pre) == ArriveCall(NewCall(op, arg, tag, pre))

SetCall(i, c) == calls' = [calls EXCEPT ![i] = c]

At(i, op, pc) == calls[i].op = op /\ calls[i].pc = pc

\* ---- initTodoStore, run by the call that found db and dbInitPromise null
\* the promise of initTodoStore rejects: `finally { dbInitPromise = null }`,
\* the initiating handler and every handler awaiting dbInitPromise reject
InitFailed(i) ==
  /\ dbInitPromise' = FALSE
  /\ calls' = [j \in 1..Len(calls) |->
                 IF j = i \/ calls[j].pc = "awaitInit"
                 THEN Returned(calls[j], "error") ELSE calls[j]]

InitOpen(i) ==
  /\ calls[i].pc = "open"
  /\ IF Fails(calls[i])
     THEN InitFailed(i) /\ UNCHANGED db
     ELSE /\ db' = TRUE               \* openSqlite; db = instance
          /\ SetCall(i, [calls[i] EXCEPT !.pc = "pragma"])
          /\ UNCHANGED dbInitPromise
  /\ UNCHANGED <<schema, todos, meta, txn>>

\* the three PRAGMA statements (no effect on the modelled state); the first
\* statement on a file that is not a database fails
InitPragma(i) ==
  /\ calls[i].pc = "pragma"
  /\ IF Fails(calls[i])
     THEN InitFailed(i)
     ELSE SetCall(i, [calls[i] EXCEPT !.pc = "createMeta"]) /\ UNCHANGED dbInitPromise
  /\ UNCHANGED <<db, schema, todos, meta, txn>>

InitCreateMeta(i) ==
  /\ calls[i].pc = "createMeta"
  /\ schema' = schema \cup {"meta"}
  /\ SetCall(i, [calls[i] EXCEPT !.pc = "createTodos"])
  /\ UNCHANGED <<db, dbInitPromise, todos, meta, txn>>

InitCreateTodos(i) ==
  /\ calls[i].pc = "createTodos"
  /\ schema' = schema \cup {"todos"}
  /\ SetCall(i, [calls[i] EXCEPT !.pc = "index"])
  /\ UNCHANGED <<db, dbInitPromise, todos, meta, txn>>

\* the two CREATE INDEX statements
InitIndex(i) ==
  /\ calls[i].pc = "index"
  /\ SetCall(i, [calls[i] EXCEPT !.pc = "getVersion"])
  /\ UNCHANGED storeVars

\* initTodoStore's `finally { dbInitPromise = null }`; the initiating handler
\* and every handler awaiting dbInitPromise continue
InitFinished(i) ==
  /\ dbInitPromise' = FALSE
  /\ calls' = [j \in 1..Len(calls) |->
                 IF j = i \/ calls[j].pc = "awaitInit"
                 THEN EnterHandler(calls[j], clock) ELSE calls[j]]

InitGetVersion(i) ==
  /\ calls[i].pc = "getVersion"
  /\ IF "version" \in DOMAIN meta
     THEN InitFinished(i)
     ELSE SetCall(i, [calls[i] EXCEPT !.pc = "insVersion"]) /\ UNCHANGED dbInitPromise
  /\ UNCHANGED <<db, schema, todos, meta, txn>>

InitInsertVersion(i) ==
  /\ calls[i].pc = "insVersion"
  /\ meta' = [k \in DOMAIN meta \cup {"version"} |-> IF k = "version" THEN 1 ELSE meta[k]]
  /\ SetCall(i, [calls[i] EXCEPT !.pc = "insUpdatedAt", !.now = clock])
  /\ UNCHANGED <<db, dbInitPromise, schema, todos, txn>>

InitInsertUpdatedAt(i) ==
  /\ calls[i].pc = "insUpdatedAt"
  /\ meta' = TouchMeta(meta, calls[i].now)
  /\ InitFinished(i)
  /\ UNCHANGED <<db, schema, todos, txn>>

\* a statement on table todos rejects when the table does not exist yet
TodosReady == db /\ "todos" \in schema
MetaReady == db /\ "meta" \in schema

\* ---- loadTodosByDate / loadTodoSummaryIndex
ByDateSelect(i) ==
  /\ At(i, "byDate", "select")
  /\ IF TodosReady /\ ~Fails(calls[i])
     THEN \E r \in ByDateResults(todos, calls[i].arg) :
             SetCall(i, [Returned(calls[i], "rows") EXCEPT !.rows = r])
     ELSE SetCall(i, Returned(calls[i], "error"))
  /\ UNCHANGED storeVars

SummarySelect(i) ==
  /\ At(i, "summary", "select")
  /\ IF TodosReady /\ ~Fails(calls[i])
     THEN \E r \in SummaryResults(todos) :
             SetCall(i, [Returned(calls[i], "rows") EXCEPT !.rows = r])
     ELSE SetCall(i, Returned(calls[i], "error"))
  /\ UNCHANGED storeVars

\* ---- upsertTodoRow
UpsertInsert(i) ==
  /\ At(i, "upsert", "insert")
  /\ IF TodosReady /\ ~Fails(calls[i])
     THEN /\ todos' = InsertOrUpdate(todos, UpsertParams(calls[i].arg, calls[i].now))
          /\ SetCall(i, [calls[i] EXCEPT !.pc = "meta", !.now = clock])
     ELSE /\ SetCall(i, Returned(calls[i], "error"))
          /\ UNCHANGED todos
  /\ UNCHANGED <<db, dbInitPromise, schema, meta, txn>>

UpsertMeta(i) ==
  /\ At(i, "upsert", "meta")
  /\ IF MetaReady /\ ~Fails(calls[i])
     THEN /\ meta' = TouchMeta(meta, calls[i].now)
          /\ SetCall(i, Returned(calls[i], "true"))
     ELSE /\ SetCall(i, Returned(calls[i], "error"))
          /\ UNCHANGED meta
  /\ UNCHANGED <<db, dbInitPromise, schema, todos, txn>>

\* ---- deleteTodoRow
DeleteSelect(i) ==
  /\ At(i, "delete", "select")
  /\ IF TodosReady /\ ~Fails(calls[i])
     THEN \E r \in CascadeCandidates(todos, calls[i].arg) :
             SetCall(i, [calls[i] EXCEPT !.pc = "begin", !.rows = r, !.now = clock])
     ELSE SetCall(i, Returned(calls[i], "error"))
  /\ UNCHANGED storeVars

\* BEGIN IMMEDIATE TRANSACTION (outside the try: a failure rejects the call
\* without ROLLBACK); it fails inside a transaction of the same connection
Begin(i, next) ==
  IF txn = <<>> /\ ~Fails(calls[i])
  THEN /\ txn' = <<[todos |-> todos, meta |-> meta]>>
       /\ SetCall(i, next)
  ELSE /\ SetCall(i, Returned(calls[i], "error"))
       /\ UNCHANGED txn

DeleteBegin(i) ==
  /\ At(i, "delete", "begin")
  /\ Begin(i, [calls[i] EXCEPT !.pc = "delete"])
  /\ UNCHANGED <<db, dbInitPromise, schema, todos, meta>>

AfterCascade(c, k) ==
  IF k = 0 THEN [c EXCEPT !.pc = "meta", !.k = 0] ELSE [c EXCEPT !.pc = "update", !.k = k]

\* the variant in which the catch block is missing: the error leaves the
\* handler at once
Caught_NoCatch(c) == Returned(c, "error")

\* a statement inside `try` rejects: control goes to the catch block
Caught(c) == [c EXCEPT !.pc = "rollback", !.k = 0]

DeleteDelete(i) ==
  /\ At(i, "delete", "delete")
  /\ IF Fails(calls[i])
     THEN SetCall(i, Caught(calls[i])) /\ UNCHANGED todos
     ELSE /\ todos' = DeleteWhereId(todos, calls[i].arg)
          /\ SetCall(i, AfterCascade(calls[i],
                           NextCascade(calls[i].rows, 1, calls[i].arg)))
  /\ UNCHANGED <<db, dbInitPromise, schema, meta, txn>>

DeleteUpdate(i) ==
  /\ At(i, "delete", "update")
  /\ IF Fails(calls[i])
     THEN SetCall(i, Caught(calls[i])) /\ UNCHANGED todos
     ELSE /\ todos' = CascadeUpdate(todos, calls[i].rows[calls[i].k], calls[i].arg,
                                    calls[i].now)
          /\ SetCall(i, AfterCascade(calls[i],
                           NextCascade(calls[i].rows, calls[i].k + 1, calls[i].arg)))
  /\ UNCHANGED <<db, dbInitPromise, schema, meta, txn>>

\* ---- updateTodoOrders
AfterOrders(c, k) ==
  IF k = 0 THEN [c EXCEPT !.pc = "meta", !.k = 0] ELSE [c EXCEPT !.pc = "update", !.k = k]

OrdersBegin(i) ==
  /\ At(i, "updateOrders", "begin")
  /\ Begin(i, AfterOrders(calls[i], NextOrderItem(calls[i].arg, 1)))
  /\ UNCHANGED <<db, dbInitPromise, schema, todos, meta>>

OrdersUpdate(i) ==
  /\ At(i, "updateOrders", "update")
  /\ IF Fails(calls[i])
     THEN SetCall(i, Caught(calls[i])) /\ UNCHANGED todos
     ELSE /\ todos' = OrderUpdate(todos, calls[i].arg[calls[i].k], calls[i].now)
          /\ SetCall(i, AfterOrders(calls[i],
                           NextOrderItem(calls[i].arg, calls[i].k + 1)))
  /\ UNCHANGED <<db, dbInitPromise, schema, meta, txn>>

\* ---- the tail of both transactions
TxnMeta(i) ==
  /\ calls[i].op \in {"delete", "updateOrders"} /\ calls[i].pc = "meta"
  /\ IF Fails(calls[i])
     THEN SetCall(i, Caught(calls[i])) /\ UNCHANGED meta
     ELSE /\ meta' = TouchMeta(meta, calls[i].now)
          /\ SetCall(i, [calls[i] EXCEPT !.pc = "commit"])
  /\ UNCHANGED <<db, dbInitPromise, schema, todos, txn>>

\* COMMIT; it fails when no transaction is active or the engine fails it
TxnCommit(i) ==
  /\ calls[i].op \in {"delete", "updateOrders"} /\ calls[i].pc = "commit"
  /\ IF txn # <<>> /\ ~Fails(calls[i])
     THEN txn' = <<>> /\ SetCall(i, Returned(calls[i], "true"))
     ELSE UNCHANGED txn /\ SetCall(i, Caught(calls[i]))
  /\ UNCHANGED <<db, dbInitPromise, schema, todos, meta>>

\* the variant in which the catch block rethrows without ROLLBACK
RolledBack_Not(t, snapshot) == t

\* ROLLBACK: the tables are again what they were at BEGIN
RolledBack(t, snapshot) == snapshot

\* catch (e) { await run("ROLLBACK;"); throw e; }  ROLLBACK itself fails
\* when no transaction is active; the call rejects either way
TxnRollback(i) ==
  /\ calls[i].op \in {"delete", "updateOrders"} /\ calls[i].pc = "rollback"
  /\ IF txn # <<>>
     THEN /\ todos' = RolledBack(todos, txn[1].todos)
          /\ meta' = RolledBack(meta, txn[1].meta)
          /\ txn' = <<>>
     ELSE UNCHANGED <<todos, meta, txn>>
  /\ SetCall(i, Returned(calls[i], "error"))
  /\ UNCHANGED <<db, dbInitPromise, schema>>

\* one statement of one running handler
StoreStep ==
  \E i \in 1..Len(calls) :
     \/ InitOpen(i) \/ InitPragma(i) \/ InitCreateMeta(i) \/ InitCreateTodos(i)
     \/ InitIndex(i) \/ InitGetVersion(i) \/ InitInsertVersion(i)
     \/ InitInsertUpdatedAt(i)
     \/ ByDateSelect(i) \/ SummarySelect(i)
     \/ UpsertInsert(i) \/ UpsertMeta(i)
     \/ DeleteSelect(i) \/ DeleteBegin(i) \/ DeleteDelete(i) \/ DeleteUpdate(i)
     \/ OrdersBegin(i) \/ OrdersUpdate(i)
     \/ TxnMeta(i) \/ TxnCommit(i) \/ TxnRollback(i)


\* ------------------------------------------- the store driven call by call
\* Records a caller of the store may pass to upsert: the record the client
\* creates for (id, date), or that record with one group of fields edited.
BaseTodo(id, date, now) ==
  [id |-> id, title |-> "", content |-> "", status |-> "TODO", date |-> date,
   order |-> 0, refs |-> <<>>, rels |-> <<>>, attachments |-> <<>>,
   createdAt |-> now, updatedAt |-> now]

SampleAttachment == [id |-> "a1", path |-> "/f"]

TodoVariants(id, date, now) ==
  LET b == BaseTodo(id, date, now) IN
  IF date = "" THEN {b}
  ELSE {b,
        [b EXCEPT !.title = "a", !.content = "b", !.status = "DONE", !.order = 1,
                  !.attachments = <<SampleAttachment>>]}
       \cup {[b EXCEPT !.refs = <<x>>] : x \in Ids \ {id}}
       \cup {[b EXCEPT !.rels = <<[toId |-> x, type |-> "depends"]>>] : x \in Ids \ {id}}

UpsertInputs(now) ==
  UNION {TodoVariants(id, date, now) : id \in Ids, date \in Dates}

\* updateOrders lists: every stored id of one date, each with a distinct
\* order 0..n-1, listed by new order (as onDragEnd builds them)
OrdersInputs(t, now) ==
  UNION {
    LET S == {i \in DOMAIN t : t[i].date = d} IN
    IF S = {} THEN {}
    ELSE {[k \in 1..Cardinality(S) |-> [id |-> s[k], order |-> k - 1, updatedAt |-> now]] :
            s \in AllOrders(S)}
    : d \in Dates}

Idle == Len(calls) = 0

Invoke(op, arg) ==
  /\ Idle
  /\ clock < MaxCalls
  /\ clock' = clock + 1
  /\ Arrive(op, arg, Tag("caller", 0), todos)
  /\ UNCHANGED <<db, schema, todos, meta, txn, clientVars>>

InvokeUpsert == \E todo \in UpsertInputs(clock) : Invoke("upsert", todo)
InvokeDelete == \E id \in Ids : Invoke("delete", id)
InvokeOrders == \E u \in OrdersInputs(todos, clock) : Invoke("updateOrders", u)
InvokeByDate == \E d \in Dates : Invoke("byDate", d)
InvokeSummary == Invoke("summary", "")

\* the caller repeats the upsert that has just resolved, with the same record
InvokeUpsertAgain ==
  /\ Len(calls) = 1
  /\ calls[1].op = "upsert" /\ calls[1].pc = "ret" /\ calls[1].res = "true"
  /\ ~calls[1].again
  /\ calls' = <<[EnterHandler(NewCall("upsert", calls[1].arg, Tag("caller", 0), todos), clock)
                   EXCEPT !.again = TRUE]>>
  /\ UNCHANGED <<storeVars, clock, clientVars>>

\* the caller receives the reply
Collect ==
  /\ Len(calls) = 1
  /\ calls[1].pc = "ret"
  /\ calls' = <<>>
  /\ UNCHANGED <<storeVars, clock, clientVars>>

\* state after construction: no connection, a fresh database file; the
\* renderer is not part of a call-by-call run
StoreInit ==
  /\ MainInit
  /\ calls = <<>>
  /\ ClientIdle

StoreNext ==
  \/ InvokeUpsert \/ InvokeDelete \/ InvokeOrders \/ InvokeByDate \/ InvokeSummary
  \/ InvokeUpsertAgain
  \/ Collect
  \/ (StoreStep /\ UNCHANGED <<clock, clientVars>>)

StoreSpec == StoreInit /\ [][StoreNext]_vars


\* ------------------------------------------------------ renderer (App.tsx)
MaxGestures == 3

\* at most this many messages are unanswered at a time
MaxInFlight == 2

\* uid() hands out fresh ids, in this order
IdSeq == <<"t1", "t2">>
AttSeq == <<"a1">>

\* index of the first element with this id, 0 when there is none
\* (Array.prototype.findIndex + 1)
Find(s, id) ==
  IF \E k \in 1..Len(s) : s[k].id = id
  THEN CHOOSE k \in 1..Len(s) : s[k].id = id /\ \A j \in 1..(k - 1) : s[j].id # id
  ELSE 0

\* (a, b) => a.order - b.order || a.createdAt.localeCompare(b.createdAt)
ByOrderThenCreated(a, b) ==
  \/ a.order < b.order
  \/ a.order = b.order /\ a.createdAt < b.createdAt

RECURSIVE SortForDay(_)
\* Array.prototype.sort (stable) with that comparator
SortForDay(s) ==
  IF Len(s) <= 1 THEN s
  ELSE LET init == SortForDay(SubSeq(s, 1, Len(s) - 1))
           x == s[Len(s)]
           n == Cardinality({k \in 1..Len(init) : ~ByOrderThenCreated(x, init[k])})
       IN SubSeq(init, 1, n) \o <<x>> \o SubSeq(init, n + 1, Len(init))

todosForDay == SortForDay(SelectSeq2(dayTodos, "HasDate", selectedDate))

\* useMemo selectedTodo: <<>> is null
selectedTodo ==
  IF Find(dayTodos, selectedId) = 0 THEN <<>> ELSE <<dayTodos[Find(dayTodos, selectedId)]>>

\* the relation targets without the filter on the selected record
candidatesSameDay_All == todosForDay

candidatesSameDay == SelectSeq2(todosForDay, "NotId2", selectedId)

referenceCandidates == SelectSeq2(summaryTodos, "NotId2", selectedId)

normalizeAttachment(raw) ==
  [id |-> Field(raw, "id", "a0"), path |-> Field(raw, "path", "")]

normalizeTodo(raw) ==
  [raw EXCEPT !.attachments = [k \in 1..Len(raw.attachments) |->
                                  normalizeAttachment(raw.attachments[k])]]

toSummary(todo) ==
  [id |-> todo.id, title |-> todo.title, status |-> todo.status, date |-> todo.date,
   order |-> todo.order, createdAt |-> todo.createdAt, updatedAt |-> todo.updatedAt]

normalizeSummary(raw) ==
  [id |-> raw.id, title |-> raw.title,
   status |-> IF raw.status \in {"TODO", "IN_PROGRESS", "BLOCKED", "DONE"}
              THEN raw.status ELSE "TODO",
   date |-> raw.date, order |-> raw.order,
   createdAt |-> raw.createdAt, updatedAt |-> raw.updatedAt]

\* getTodoById: the live dayTodosRef first, then the selectedTodo of the
\* render the calling closure belongs to
getTodoById(id, sel) ==
  IF Find(dayTodos, id) # 0 THEN <<dayTodos[Find(dayTodos, id)]>>
  ELSE IF Len(sel) = 1 /\ sel[1].id = id THEN sel
  ELSE <<>>

\* the effect that drops a selection that is not shown: selectedId after
\* the renders settle, given the new dayTodos and selectedDate
FixSelection(id, day, date) ==
  IF id = "" THEN ""
  ELSE IF Find(day, id) = 0 \/ day[Find(day, id)].date # date THEN ""
  ELSE id

\* n more messages may be sent
CanSend(n) == Len(inbox) + Len(calls) + n <= MaxInFlight

\* a message to the main process
Msg(op, arg, k, e) ==
  [op |-> op, arg |-> arg,
   tag |-> [k |-> k, e |-> e, late |-> op = "upsert" /\ arg.id \in deleted,
            n |-> IF op = "upsert" THEN burst[arg.id].n ELSE 0]]

\* the variant in which Map.prototype.delete removes nothing
Without_Not(f, id) == f

Without(f, id) == [i \in DOMAIN f \ {id} |-> f[i]]

With(f, id, v) == [i \in DOMAIN f \cup {id} |-> IF i = id THEN v ELSE f[i]]

\* scheduleUpsert without clearTimeout(existing)
Cleared_Not(t, id) == t

\* scheduleUpsert without window.setTimeout
Armed_Never(t, id) == t

\* setTimeout arms a callback for the record; clearTimeout disarms the one
\* whose handle is in saveTimersRef
Cleared(t, id) == IF id \in saveTimers THEN [t EXCEPT ![id] = @ - 1] ELSE t

Armed(t, id) == [t EXCEPT ![id] = @ + 1]

\* scheduleUpsert keeping the snapshot that is already scheduled
scheduleUpsert_KeepsFirst(todo) ==
  /\ pendingSaves' = IF todo.id \in DOMAIN pendingSaves THEN pendingSaves
                     ELSE With(pendingSaves, todo.id, todo)
  /\ timeouts' = Armed(Cleared(timeouts, todo.id), todo.id)
  /\ saveTimers' = saveTimers \cup {todo.id}
  /\ burst' = [burst EXCEPT ![todo.id] = [n |-> @.n + 1, last |-> <<todo>>]]

scheduleUpsert(todo) ==
  /\ pendingSaves' = With(pendingSaves, todo.id, todo)
  /\ timeouts' = Armed(Cleared(timeouts, todo.id), todo.id)
  /\ saveTimers' = saveTimers \cup {todo.id}
  /\ burst' = [burst EXCEPT ![todo.id] = [n |-> @.n + 1, last |-> <<todo>>]]

\* upsertSummary's updater applied to the current summaryTodos
upsertSummary(sum, todo) ==
  IF Find(sum, todo.id) = 0 THEN Append(sum, toSummary(todo))
  ELSE [sum EXCEPT ![Find(sum, todo.id)] = toSummary(todo)]

ReplaceTodo(day, todo) == [k \in 1..Len(day) |-> IF day[k].id = todo.id THEN todo ELSE day[k]]

\* applyTodoUpdate as the closure of a render with this selectedDate runs it;
\* sel is the selection the handler leaves behind
applyTodoUpdate(todo, date, sel) ==
  /\ dayTodos' = SelectSeq2(ReplaceTodo(dayTodos, todo), "HasDate", date)
  /\ summaryTodos' = upsertSummary(summaryTodos, todo)
  /\ scheduleUpsert(todo)
  /\ selectedId' = FixSelection(sel, dayTodos', selectedDate)

mainVars == <<storeVars, calls>>

\* Renderer events are slow next to SQLite statements: a gesture, a timer or
\* an answer of the file bridge happens while no statement of a handler is
\* waiting to run.  Messages to the main process and its replies stay in
\* transit for any time, so handlers still run side by side and the renderer
\* still acts while calls are unanswered.  (A reply nothing is waiting for,
\* to a `void` call, is taken at once.)
MainReady ==
  \A i \in 1..Len(calls) : calls[i].pc = "ret" /\ calls[i].tag.k \in {"flush", "load", "summary"}

\* a user gesture: time passes, the main process is not touched
Gesture ==
  /\ MainReady
  /\ gestures < MaxGestures
  /\ gestures' = gestures + 1
  /\ clock' = clock + 1
  /\ UNCHANGED <<mainVars, failed>>

\* todosForDay.length in place of the largest order
MaxOrder_Length(s) == Len(s)

\* todosForDay.length ? Math.max(...todosForDay.map((t) => t.order)) : -1
MaxOrder(s) ==
  IF Len(s) = 0 THEN -1
  ELSE CHOOSE m \in {s[k].order : k \in 1..Len(s)} :
          \A k \in 1..Len(s) : s[k].order <= m

createTodo ==
  /\ Gesture
  /\ nextUid < Len(IdSeq)
  /\ LET t == [id |-> IdSeq[nextUid + 1], title |-> "", content |-> "",
               status |-> "TODO", date |-> selectedDate,
               order |-> MaxOrder(todosForDay) + 1,
               refs |-> <<>>, rels |-> <<>>, attachments |-> <<>>,
               createdAt |-> clock + 1, updatedAt |-> clock + 1]
     IN /\ dayTodos' = Append(dayTodos, t)
        /\ summaryTodos' = Append(summaryTodos, toSummary(t))
        /\ scheduleUpsert(t)
        /\ selectedId' = FixSelection(t.id, dayTodos', selectedDate)
  /\ nextUid' = nextUid + 1
  /\ UNCHANGED <<inbox, selectedDate, effs, fileOps, nextAtt, deleted>>

openPanel ==
  /\ MainReady
  /\ \E k \in 1..Len(todosForDay) :
        /\ todosForDay[k].id # selectedId
        /\ selectedId' = FixSelection(todosForDay[k].id, dayTodos, selectedDate)
  /\ UNCHANGED <<mainVars, clock, inbox, selectedDate, dayTodos, summaryTodos,
                 pendingSaves, saveTimers, timeouts, effs, fileOps, nextUid,
                 gestures, nextAtt, deleted, burst, failed>>

\* patchTodo(selectedTodo.id, patch) from the detail panel
patchTodo(patch) ==
  /\ Gesture
  /\ LET current == getTodoById(selectedId, selectedTodo)
         updated == [f \in DOMAIN current[1] |->
                       IF f = "updatedAt" THEN clock + 1
                       ELSE IF f \in DOMAIN patch THEN patch[f] ELSE current[1][f]]
         leaves == "date" \in DOMAIN patch /\ patch.date # "" /\ patch.date # selectedDate
     IN /\ Len(current) = 1
        /\ applyTodoUpdate(updated, selectedDate, IF leaves THEN "" ELSE selectedId)
  /\ UNCHANGED <<inbox, selectedDate, effs, fileOps, nextUid, nextAtt, deleted>>

Titles == {"", "a"}

\* the dates the user picks
UserDates == {"d1", "d2"}

\* the panel's inputs: title, date, the reference checkboxes, Add relation
patchTitle ==
  /\ Len(selectedTodo) = 1
  /\ \E v \in Titles \ {selectedTodo[1].title} : patchTodo([title |-> v])

patchDate ==
  /\ Len(selectedTodo) = 1
  /\ \E d \in UserDates \ {selectedTodo[1].date} : patchTodo([date |-> d])

patchRefs ==
  /\ Len(selectedTodo) = 1
  /\ \E k \in 1..Len(referenceCandidates) :
       LET c == referenceCandidates[k].id
           refs == selectedTodo[1].refs
       IN patchTodo([refs |-> IF c \in SeqRange(refs)
                              THEN SelectSeq2(refs, "NotId", c)
                              ELSE Append(refs, c)])

patchRels ==
  /\ Len(selectedTodo) = 1
  /\ \E k \in 1..Len(candidatesSameDay) :
       patchTodo([rels |-> Append(selectedTodo[1].rels,
                                  [toId |-> candidatesSameDay[k].id, type |-> "depends"])])

\* clearPendingSave without timers.delete(id)
clearPendingSave_KeepsTimer(id) ==
  /\ pendingSaves' = Without(pendingSaves, id)
  /\ timeouts' = Cleared(timeouts, id)
  /\ saveTimers' = saveTimers
  /\ burst' = [burst EXCEPT ![id] = NoBurst]

clearPendingSave(id) ==
  /\ pendingSaves' = Without(pendingSaves, id)
  /\ timeouts' = Cleared(timeouts, id)
  /\ saveTimers' = saveTimers \ {id}
  /\ burst' = [burst EXCEPT ![id] = NoBurst]

StripRefs(t, id) ==
  [t EXCEPT !.refs = SelectSeq2(t.refs, "NotId", id),
            !.rels = SelectSeq2(t.rels, "NotToId", id)]

\* deleteTodo(selectedTodo.id), confirmed
deleteTodo ==
  /\ Gesture
  /\ CanSend(1)
  /\ Len(selectedTodo) = 1
  /\ LET id == selectedId
         kept == SelectSeq2(dayTodos, "NotId2", id)
     IN /\ clearPendingSave(id)
        /\ dayTodos' = [k \in 1..Len(kept) |-> StripRefs(kept[k], id)]
        /\ summaryTodos' = SelectSeq2(summaryTodos, "NotId2", id)
        /\ inbox' = Append(inbox, Msg("delete", id, "void", Len(effs)))
        /\ deleted' = deleted \cup {id}
  /\ selectedId' = ""
  /\ UNCHANGED <<selectedDate, effs, fileOps, nextUid, nextAtt>>

\* arrayMove of @dnd-kit/sortable
arrayMove(s, from, to) ==
  LET rest == SubSeq(s, 1, from - 1) \o SubSeq(s, from + 1, Len(s))
  IN SubSeq(rest, 1, to - 1) \o <<s[from]>> \o SubSeq(rest, to, Len(rest))

IndexOf(s, x) == CHOOSE k \in 1..Len(s) : s[k] = x

Reordered(s, moved, now) ==
  [k \in 1..Len(s) |->
     IF s[k].id \in SeqRange(moved)
     THEN [s[k] EXCEPT !.order = IndexOf(moved, s[k].id) - 1, !.updatedAt = now]
     ELSE s[k]]

onDragEnd ==
  /\ Gesture
  /\ CanSend(1)
  /\ \E a, o \in 1..Len(todosForDay) :
       /\ a # o
       /\ LET dayIds == [k \in 1..Len(todosForDay) |-> todosForDay[k].id]
              movedIds == arrayMove(dayIds, a, o)
          IN /\ dayTodos' = Reordered(dayTodos, movedIds, clock + 1)
             /\ summaryTodos' = Reordered(summaryTodos, movedIds, clock + 1)
             /\ inbox' = Append(inbox,
                   Msg("updateOrders",
                       [k \in 1..Len(movedIds) |->
                          [id |-> movedIds[k], order |-> k - 1, updatedAt |-> clock + 1]],
                       "void", Len(effs)))
  /\ selectedId' = FixSelection(selectedId, dayTodos', selectedDate)
  /\ UNCHANGED <<selectedDate, pendingSaves, saveTimers, timeouts, effs, fileOps,
                 nextUid, nextAtt, deleted, burst>>

\* a run of the selectedDate effect: its date, where it stands ("flush":
\* awaiting flushPendingSaves, "load": awaiting loadTodosByDate, "done"), how
\* many upserts its flush sent and whether one of them has rejected
Run(d, stage, n) == [date |-> d, stage |-> stage, n |-> n, rejected |-> FALSE]

\* the callback scheduleUpsert hands to setTimeout
TimerFire ==
  \E id \in Ids :
    /\ MainReady
    /\ timeouts[id] > 0
    /\ timeouts' = [timeouts EXCEPT ![id] = @ - 1]
    /\ saveTimers' = saveTimers \ {id}
    /\ IF id \in DOMAIN pendingSaves
       THEN /\ CanSend(1)
            /\ pendingSaves' = Without(pendingSaves, id)
            /\ inbox' = Append(inbox, Msg("upsert", pendingSaves[id], "timer", Len(effs)))
            /\ burst' = [burst EXCEPT ![id] = NoBurst]
       ELSE UNCHANGED <<pendingSaves, inbox, burst>>
    /\ UNCHANGED <<mainVars, clock, selectedDate, selectedId, dayTodos, summaryTodos,
                   effs, fileOps, nextUid, gestures, nextAtt, deleted, failed>>

\* setSelectedDate(d) with d another date, and the run of the selectedDate
\* effect it starts: flushPendingSaves up to its await, or (nothing pending)
\* straight on to loadTodosByDate
selectDate ==
  /\ Gesture
  /\ \E d \in UserDates \ {selectedDate} :
     \E ord \in AllOrders(DOMAIN pendingSaves) :
       LET e == Len(effs) + 1
           flush == [k \in 1..Len(ord) |-> Msg("upsert", pendingSaves[ord[k]], "flush", e)]
       IN /\ CanSend(IF Len(flush) = 0 THEN 1 ELSE Len(flush))
          /\ selectedDate' = d
          /\ selectedId' = FixSelection(selectedId, dayTodos, d)
          /\ timeouts' = [id \in Ids |-> IF id \in saveTimers THEN timeouts[id] - 1
                                         ELSE timeouts[id]]
          /\ saveTimers' = {}
          /\ pendingSaves' = NoTodos
          /\ burst' = [id \in Ids |-> IF id \in DOMAIN pendingSaves THEN NoBurst
                                      ELSE burst[id]]
          /\ IF Len(flush) = 0
             THEN /\ inbox' = Append(inbox, Msg("byDate", d, "load", e))
                  /\ effs' = Append(effs, Run(d, "load", 0))
             ELSE /\ inbox' = inbox \o flush
                  /\ effs' = Append(effs, Run(d, "flush", Len(flush)))
  /\ UNCHANGED <<dayTodos, summaryTodos, fileOps, nextUid, nextAtt, deleted>>

\* removeAttachment / handleUploadFiles up to their await on the file bridge;
\* the closure keeps the selectedTodo and selectedDate of its render
removeAttachment ==
  /\ Gesture
  /\ Len(selectedTodo) = 1
  /\ \E k \in 1..Len(selectedTodo[1].attachments) :
       fileOps' = Append(fileOps, [kind |-> "remove", todoId |-> selectedId,
                                   att |-> selectedTodo[1].attachments[k].id,
                                   sel |-> selectedTodo, date |-> selectedDate])
  /\ UNCHANGED <<inbox, selectedDate, selectedId, dayTodos, summaryTodos, pendingSaves,
                 saveTimers, timeouts, effs, nextUid, nextAtt, deleted, burst>>

handleUploadFiles ==
  /\ Gesture
  /\ Len(selectedTodo) = 1
  /\ nextAtt < Len(AttSeq)
  /\ nextAtt' = nextAtt + 1
  /\ fileOps' = Append(fileOps, [kind |-> "upload", todoId |-> selectedId,
                                 att |-> AttSeq[nextAtt + 1],
                                 sel |-> selectedTodo, date |-> selectedDate])
  /\ UNCHANGED <<inbox, selectedDate, selectedId, dayTodos, summaryTodos, pendingSaves,
                 saveTimers, timeouts, effs, nextUid, deleted, burst>>

\* the file bridge answers and the handler runs on from its await
FileReply ==
  \E i \in 1..Len(fileOps) :
    LET op == fileOps[i]
        current == getTodoById(op.todoId, op.sel)
        updated == [current[1] EXCEPT
                      !.attachments = IF op.kind = "remove"
                                      THEN SelectSeq2(@, "NotAtt", op.att)
                                      ELSE Append(@, [id |-> op.att, path |-> "/f"]),
                      !.updatedAt = clock + 1]
    IN /\ MainReady
       /\ fileOps' = SubSeq(fileOps, 1, i - 1) \o SubSeq(fileOps, i + 1, Len(fileOps))
       /\ clock' = clock + 1
       /\ IF Len(current) = 1
          THEN applyTodoUpdate(updated, op.date, selectedId)
          ELSE UNCHANGED <<dayTodos, summaryTodos, pendingSaves, saveTimers, timeouts,
                           burst, selectedId>>
       /\ UNCHANGED <<mainVars, inbox, selectedDate, effs, nextUid, gestures, nextAtt,
                      deleted, failed>>

\* the main process takes the next message: ipcMain.handle's handler starts
Deliver ==
  /\ Len(inbox) > 0
  /\ Arrive(Head(inbox).op, Head(inbox).arg, Head(inbox).tag, NoTodos)
  /\ inbox' = Tail(inbox)
  /\ UNCHANGED <<db, schema, todos, meta, txn, clock, selectedDate, selectedId, dayTodos,
                 summaryTodos, pendingSaves, saveTimers, timeouts, effs, fileOps, nextUid,
                 gestures, nextAtt, deleted, burst, failed>>

\* Promise.race in place of Promise.all: the first answer settles the flush
FlushOutstanding_Race(i) == FALSE

\* another upsert of the same flushPendingSaves has not been answered yet
FlushOutstanding(i) ==
  \/ \E k \in 1..Len(inbox) :
        inbox[k].tag.k = "flush" /\ inbox[k].tag.e = calls[i].tag.e
  \/ \E k \in 1..Len(calls) :
        k # i /\ calls[k].tag.k = "flush" /\ calls[k].tag.e = calls[i].tag.e

\* the variant in which the rejection of a write empties the day's list
Swallowed_Resets(c, day) == IF c.res = "error" THEN <<>> ELSE day

\* `.catch(() => { })` on a dispatched write: nothing runs on either outcome
Swallowed(c, day) == day

\* the variant without the `active` flag: every run installs its result
Active_Always(e) == TRUE

\* `active` of the run e of the selectedDate effect: the effect's cleanup
\* clears it when selectedDate changes, that is when a later run starts
Active(e) == e = Len(effs)

\* a handler's result reaches the renderer and the code awaiting it runs on
Reply ==
  \E i \in 1..Len(calls) :
    LET c == calls[i] IN
    /\ c.pc = "ret"
    /\ calls' = SubSeq(calls, 1, i - 1) \o SubSeq(calls, i + 1, Len(calls))
    /\ failed' = (failed \/ c.res = "error")
    /\ IF c.tag.k = "flush" /\ effs[c.tag.e].stage = "flush"
          /\ (c.res = "error" \/ ~FlushOutstanding(i))
       THEN \* Promise.all settles (all fulfilled, or the first rejection);
            \* the effect goes on to loadTodosByDate(selectedDate)
            /\ effs' = [effs EXCEPT ![c.tag.e].stage = "load",
                                     ![c.tag.e].rejected = (c.res = "error")]
            /\ inbox' = Append(inbox, Msg("byDate", effs[c.tag.e].date, "load", c.tag.e))
            /\ UNCHANGED <<dayTodos, summaryTodos, selectedId>>
       ELSE IF c.tag.k = "load"
       THEN /\ effs' = [effs EXCEPT ![c.tag.e].stage = "done"]
            /\ IF c.res = "rows" /\ Active(c.tag.e)
               THEN \* if (!active) return; setDayTodos(items)
                    /\ dayTodos' = [k \in 1..Len(c.rows) |-> normalizeTodo(c.rows[k])]
                    /\ selectedId' = FixSelection(selectedId, dayTodos', selectedDate)
               ELSE UNCHANGED <<dayTodos, selectedId>>
            /\ UNCHANGED <<inbox, summaryTodos>>
       ELSE IF c.tag.k = "summary" /\ c.res = "rows"
       THEN /\ summaryTodos' = [k \in 1..Len(c.rows) |-> normalizeSummary(c.rows[k])]
            /\ UNCHANGED <<inbox, effs, dayTodos, selectedId>>
       ELSE /\ dayTodos' = Swallowed(c, dayTodos)
            /\ UNCHANGED <<inbox, effs, summaryTodos, selectedId>>
    /\ UNCHANGED <<storeVars, clock, selectedDate, pendingSaves, saveTimers, timeouts,
                   fileOps, nextUid, gestures, nextAtt, deleted, burst>>

\* The database file as an earlier run of the program left it: two records
\* on the day the program starts on, written by upsert, and the meta rows.
StoredRecord(k) == [BaseTodo(IdSeq[k], "d1", 0) EXCEPT !.order = k - 1]

StoredTodos == [id \in Ids |-> UpsertParams(StoredRecord(IndexOf(IdSeq, id)), 0)]

StoredMeta == TouchMeta([k \in {"version"} |-> 1], 0)

\* state after construction: the database file is new or holds the records
\* of an earlier run; the window has mounted, the summary effect has called
\* summary(), the selectedDate effect has flushed nothing and called
\* byDate(today)
Init ==
  /\ db = FALSE
  /\ dbInitPromise = FALSE
  /\ txn = <<>>
  /\ clock = 0
  /\ \/ schema = {} /\ todos = NoTodos /\ meta = NoTodos /\ nextUid = 0
     \/ schema = {"meta", "todos"} /\ todos = StoredTodos /\ meta = StoredMeta
        /\ nextUid = Len(IdSeq)
  /\ calls = <<>>
  /\ inbox = <<Msg("summary", "", "summary", 1), Msg("byDate", "d1", "load", 1)>>
  /\ selectedDate = "d1"
  /\ selectedId = ""
  /\ dayTodos = <<>>
  /\ summaryTodos = <<>>
  /\ pendingSaves = NoTodos
  /\ saveTimers = {}
  /\ timeouts = [i \in Ids |-> 0]
  /\ effs = <<Run("d1", "load", 0)>>
  /\ fileOps = <<>>
  /\ gestures = 0
  /\ nextAtt = 0
  /\ deleted = {}
  /\ burst = [i \in Ids |-> NoBurst]
  /\ failed = FALSE

Next ==
  \/ createTodo \/ openPanel
  \/ patchTitle \/ patchDate \/ patchRefs \/ patchRels
  \/ deleteTodo \/ onDragEnd \/ selectDate
  \/ removeAttachment \/ handleUploadFiles \/ FileReply
  \/ TimerFire
  \/ Deliver
  \/ (StoreStep /\ UNCHANGED <<clock, clientVars>>)
  \/ Reply

Spec == Init /\ [][Next]_vars


\* ------------------------------------- the whole program, with failing writes
\* the statement the engine may fail in a run of the whole program: the
\* INSERT of an upsert
DeliverFaults(op) == IF op = "upsert" THEN {NoFault, <<"insert", 0>>} ELSE {NoFault}

\* the main process takes the next message; the engine may fail its statement
DeliverFaulty ==
  /\ Len(inbox) > 0
  /\ \E f \in DeliverFaults(Head(inbox).op) :
        ArriveCall([NewCall(Head(inbox).op, Head(inbox).arg, Head(inbox).tag, NoTodos)
                      EXCEPT !.fault = f])
  /\ inbox' = Tail(inbox)
  /\ UNCHANGED <<db, schema, todos, meta, txn, clock, selectedDate, selectedId, dayTodos,
                 summaryTodos, pendingSaves, saveTimers, timeouts, effs, fileOps, nextUid,
                 gestures, nextAtt, deleted, burst, failed>>

RejectNext ==
  \/ createTodo \/ openPanel
  \/ patchTitle \/ patchDate \/ patchRefs \/ patchRels
  \/ deleteTodo \/ onDragEnd \/ selectDate
  \/ removeAttachment \/ handleUploadFiles \/ FileReply
  \/ TimerFire
  \/ DeliverFaulty
  \/ (StoreStep /\ UNCHANGED <<clock, clientVars>>)
  \/ Reply

RejectSpec == Init /\ [][RejectNext]_vars


\* ------------------------------- the store driven call by call, with faults
\* The caller invokes one operation at a time, as in StoreSpec; the database
\* engine may fail one statement of each call, and the caller may pass a
\* record without an id.
FaultPlans(op) ==
  {NoFault, <<"open", 0>>, <<"pragma", 0>>}
  \cup (CASE op = "upsert" -> {<<"insert", 0>>, <<"meta", 0>>}
          [] op = "delete" -> {<<"begin", 0>>, <<"delete", 0>>, <<"update", 1>>,
                               <<"update", 2>>, <<"meta", 0>>, <<"commit", 0>>}
          [] op = "updateOrders" -> {<<"begin", 0>>, <<"update", 1>>, <<"update", 2>>,
                                     <<"meta", 0>>, <<"commit", 0>>}
          [] OTHER -> {<<"select", 0>>})

\* upsert(null), upsert({}) and upsert of a record whose id is empty
InvalidTodos(now) == {<<>>, [BaseTodo("", "d1", now) EXCEPT !.title = "a"]}

\* records with a reference or a relation, one plain record, a record that
\* the LIKE pattern for t1 matches although it does not refer to t1, and
\* records that lack optional fields
FaultUpsertInputs(now) ==
  {BaseTodo("t1", "d1", now)}
  \cup {[BaseTodo(p[1], "d1", now) EXCEPT !.refs = <<p[2]>>] :
          p \in {q \in Ids \X Ids : q[1] # q[2]}}
  \cup {[BaseTodo("t2", "d1", now) EXCEPT
           !.order = 1, !.rels = <<[toId |-> "t1", type |-> "depends"]>>]}
  \cup {[BaseTodo("t2", "d1", now) EXCEPT
           !.order = 1, !.rels = <<[toId |-> "t0", type |-> "t1"]>>]}
  \cup {[id |-> "t2"], [id |-> "t2", title |-> "a", date |-> "d2"]}

FaultInvoke(op, arg) ==
  /\ Idle
  /\ clock < MaxCalls
  /\ clock' = clock + 1
  /\ \E f \in FaultPlans(op) :
        ArriveCall([NewCall(op, arg, Tag("caller", 0), todos)
                      EXCEPT !.fault = f, !.premeta = meta])
  /\ UNCHANGED <<db, schema, todos, meta, txn, clientVars>>

\* state after construction: no connection; the database file is new or
\* holds the records of an earlier run
FaultInit ==
  /\ db = FALSE
  /\ dbInitPromise = FALSE
  /\ txn = <<>>
  /\ clock = 0
  /\ \/ schema = {} /\ todos = NoTodos /\ meta = NoTodos
     \/ schema = {"meta", "todos"} /\ todos = StoredTodos /\ meta = StoredMeta
  /\ calls = <<>>
  /\ ClientIdle

FaultNext ==
  \/ \E todo \in FaultUpsertInputs(clock) : FaultInvoke("upsert", todo)
  \/ \E todo \in InvalidTodos(clock) : FaultInvoke("upsert", todo)
  \/ \E id \in Ids : FaultInvoke("delete", id)
  \/ \E u \in OrdersInputs(todos, clock) : FaultInvoke("updateOrders", u)
  \/ \E d \in UserDates : FaultInvoke("byDate", d)
  \/ FaultInvoke("summary", "")
  \/ Collect
  \/ (StoreStep /\ UNCHANGED <<clock, clientVars>>)

FaultSpec == FaultInit /\ [][FaultNext]_vars


\* ------------------------------------- the store with overlapping requests
\* ipcMain.handle starts a handler for every message as it arrives: the
\* renderer sends delete and updateOrders without awaiting them, upserts from
\* timers and loads from effects, so handlers overlap on the one connection.
MaxConc == 2

\* requests made in one run
MaxConcCalls == 3

\* The database file as an earlier run left it: t1, and t2 which refers to t1
ConcStoredTodos ==
  [id \in Ids |->
     UpsertParams(IF id = "t2"
                  THEN [StoredRecord(2) EXCEPT !.refs = <<"t1">>]
                  ELSE StoredRecord(IndexOf(IdSeq, id)), 0)]

ConcUpsertInputs(now) ==
  {[BaseTodo("t1", "d1", now) EXCEPT !.title = "a"],
   [BaseTodo("t2", "d1", now) EXCEPT !.refs = <<"t1">>]}

ConcInvoke(op, arg) ==
  /\ Len(calls) < MaxConc
  /\ clock < MaxConcCalls
  /\ clock' = clock + 1
  /\ Arrive(op, arg, Tag("caller", 0), todos)
  /\ UNCHANGED <<db, schema, todos, meta, txn, clientVars>>

\* a caller receives its reply
ConcCollect ==
  /\ \E i \in 1..Len(calls) :
        /\ calls[i].pc = "ret"
        /\ calls' = SubSeq(calls, 1, i - 1) \o SubSeq(calls, i + 1, Len(calls))
  /\ UNCHANGED <<storeVars, clock, clientVars>>

ConcInit ==
  /\ db = FALSE
  /\ dbInitPromise = FALSE
  /\ txn = <<>>
  /\ clock = 0
  /\ schema = {"meta", "todos"} /\ todos = ConcStoredTodos /\ meta = StoredMeta
  /\ calls = <<>>
  /\ ClientIdle

ConcNext ==
  \/ \E todo \in ConcUpsertInputs(clock) : ConcInvoke("upsert", todo)
  \/ \E id \in Ids : ConcInvoke("delete", id)
  \/ \E u \in OrdersInputs(todos, clock) : ConcInvoke("updateOrders", u)
  \/ ConcInvoke("byDate", "d1")
  \/ ConcInvoke("summary", "")
  \/ ConcCollect
  \/ (StoreStep /\ UNCHANGED <<clock, clientVars>>)

ConcSpec == ConcInit /\ [][ConcNext]_vars

\* ---------------------------------------------- properties of the store
\* the call that has just resolved in a call-by-call run
Resolved(op) ==
  /\ Len(calls) = 1
  /\ calls[1].op = op /\ calls[1].pc = "ret" /\ calls[1].res = "true"

Mentions(todo, id) ==
  \/ id \in SeqRange(todo.refs)
  \/ \E k \in 1..Len(todo.rels) : todo.rels[k].toId = id

\* C1: store-level cascade delete.  When deleteTodoRow(B) has resolved with
\* no other call in flight, B is not stored and no stored record, as byDate
\* reloads it (RowToTodo), has B in refs or in a rels[].toId.
C1_CascadeDelete ==
  Resolved("delete") =>
     /\ calls[1].arg \notin DOMAIN todos
     /\ \A i \in DOMAIN todos : ~Mentions(RowToTodo(todos[i]), calls[1].arg)

\* a delete of a stored B has resolved and some other record referenced B
\* (in refs or in rels) when the call arrived
C1_Witness ==
  /\ Resolved("delete")
  /\ calls[1].arg \in DOMAIN calls[1].pre
  /\ \E i \in DOMAIN calls[1].pre \ {calls[1].arg} :
        /\ Len(RowToTodo(calls[1].pre[i]).rels) > 0
        /\ Mentions(RowToTodo(calls[1].pre[i]), calls[1].arg)
        /\ i \in DOMAIN todos

ValidTodo(todo) == todo.id # "" /\ todo.date # ""

SameContent(a, b) ==
  /\ a.id = b.id /\ a.title = b.title /\ a.content = b.content
  /\ a.status = b.status /\ a.date = b.date /\ a.order = b.order
  /\ a.refs = b.refs /\ a.rels = b.rels /\ a.attachments = b.attachments

\* C7 as stated: after upsert(R) of a valid R, byDate(R.date) holds a record
\* with R's id whose fields, createdAt included, equal R's, whether or not
\* the id was stored before.
C7_RoundTripWithCreatedAt ==
  (Resolved("upsert") /\ ValidTodo(calls[1].arg)) =>
     \A r \in ByDateReply(todos, calls[1].arg.date) :
        \E k \in 1..Len(r) :
           SameContent(r[k], calls[1].arg) /\ r[k].createdAt = calls[1].arg.createdAt

\* C7 amended: after upsert(R) of a valid R, byDate(R.date) holds a record
\* with R's id whose title, content, status, date, order, refs, rels and
\* attachments equal R's; its createdAt is R's when the id was not stored
\* before and the createdAt already stored otherwise.
C7_RoundTrip ==
  (Resolved("upsert") /\ ValidTodo(calls[1].arg)) =>
     LET R == calls[1].arg IN
     \A r \in ByDateReply(todos, R.date) :
        \E k \in 1..Len(r) :
           /\ SameContent(r[k], R)
           /\ r[k].createdAt = IF R.id \in DOMAIN calls[1].pre
                               THEN calls[1].pre[R.id].createdAt ELSE R.createdAt

\* an upsert of a valid record has resolved over a stored record of the same
\* id that had another date, other content and another createdAt
C7_Witness ==
  /\ Resolved("upsert") /\ ValidTodo(calls[1].arg)
  /\ calls[1].arg.id \in DOMAIN calls[1].pre
  /\ calls[1].pre[calls[1].arg.id].date # calls[1].arg.date
  /\ calls[1].pre[calls[1].arg.id].createdAt # calls[1].arg.createdAt
  /\ Len(calls[1].arg.rels) > 0

StripUpdatedAt(t) == [i \in DOMAIN t |-> [t[i] EXCEPT !.updatedAt = 0]]

\* C8: upsert idempotence.  When upsert(R) is called again with the same
\* record right after it resolved, the stored records and all their fields
\* (updatedAt aside) are the same after the second call as after the first.
C8_UpsertIdempotent ==
  (Resolved("upsert") /\ calls[1].again) =>
     StripUpdatedAt(todos) = StripUpdatedAt(calls[1].pre)

\* the repeated upsert has resolved, for a record that overwrote an older
\* version with a non-zero order
C8_Witness ==
  /\ Resolved("upsert") /\ calls[1].again
  /\ calls[1].arg.order > 0
  /\ Cardinality(DOMAIN todos) = 2
  /\ todos[calls[1].arg.id].createdAt # calls[1].arg.createdAt

IdsOf(s) == [k \in 1..Len(s) |-> s[k].id]

\* C9 as stated: after updateOrders with a full permutation of a date
\* partition, byDate of that date returns the records in the new order, for
\* every partition the store holds (upsert stores a record whose date is
\* empty, so those records are a partition too).
C9_ReorderAnyPartition ==
  Resolved("updateOrders") =>
     \A r \in ByDateReply(todos, calls[1].pre[calls[1].arg[1].id].date) :
        IdsOf(r) = IdsOf(calls[1].arg)

\* the same for the partitions of a non-empty date only (this holds: the
\* records byDate("") does not return are the only ones in the way)
ReorderOfDatedPartition ==
  (Resolved("updateOrders") /\ calls[1].pre[calls[1].arg[1].id].date # "") =>
     \A r \in ByDateReply(todos, calls[1].pre[calls[1].arg[1].id].date) :
        IdsOf(r) = IdsOf(calls[1].arg)

SameSummary(p, todo) ==
  /\ p.id = todo.id /\ p.title = todo.title /\ p.status = todo.status
  /\ p.date = todo.date /\ p.order = todo.order
  /\ p.createdAt = todo.createdAt /\ p.updatedAt = todo.updatedAt

OneProjectionPerRecord(S) ==
  /\ Len(S) = Cardinality(DOMAIN todos)
  /\ {S[k].id : k \in 1..Len(S)} = DOMAIN todos

\* C10 as stated: summary() has one projection per stored record and each
\* projection equals the record byDate returns for the projection's date.
C10_SummaryAgreesAll ==
  \A S \in SummaryResults(todos) :
     /\ OneProjectionPerRecord(S)
     /\ \A k \in 1..Len(S) :
           \A r \in ByDateReply(todos, S[k].date) :
              \E j \in 1..Len(r) : SameSummary(S[k], r[j])

\* the same for the projections with a non-empty date only (this holds)
SummaryAgreesOnDated ==
  \A S \in SummaryResults(todos) :
     /\ OneProjectionPerRecord(S)
     /\ \A k \in 1..Len(S) :
           S[k].date # "" =>
              \A r \in ByDateReply(todos, S[k].date) :
                 \E j \in 1..Len(r) : SameSummary(S[k], r[j])



\* ------------------------------------- properties of the renderer's syncing
\* nothing is scheduled, in transit, running, unanswered or awaited
Drained ==
  /\ inbox = <<>> /\ calls = <<>> /\ fileOps = <<>>
  /\ DOMAIN pendingSaves = {}
  /\ \A id \in Ids : timeouts[id] = 0

\* C2 as stated: no dangling reference, end to end.  Once deleteTodo(X) has
\* been called and every scheduled and in-flight write has drained (no call
\* having rejected), no stored record has X in refs or in a rels[].toId.
C2_NoDanglingReference ==
  (Drained /\ ~failed) =>
     \A x \in deleted : \A i \in DOMAIN todos : ~Mentions(RowToTodo(todos[i]), x)

\* C3 as stated: no upsert for a record is sent once deleteTodo has been
\* called for it (so nothing can store the record again).
C3_NoUpsertAfterDelete ==
  /\ \A k \in 1..Len(inbox) : ~inbox[k].tag.late
  /\ \A k \in 1..Len(calls) : ~calls[k].tag.late

\* the messages a step sends
Sent ==
  IF Len(inbox') > Len(inbox) THEN SubSeq(inbox', Len(inbox) + 1, Len(inbox')) ELSE <<>>

UpsertsSent(id) == {k \in 1..Len(Sent) : Sent[k].op = "upsert" /\ Sent[k].arg.id = id}

\* the step is deleteTodo(id): it sends delete(id)
Cancels(id) == \E k \in 1..Len(Sent) : Sent[k].op = "delete" /\ Sent[k].arg = id

\* C4: debounce coalescing.  For every record, a step sends an upsert for it
\* only when it ends a burst of N >= 1 edits (each made while the previous
\* one was still scheduled) by the timer running out or by a flush; it then
\* sends exactly one, carrying the record of the last edit.  (deleteTodo ends
\* a burst without an upsert.)
C4_DebounceCoalesces ==
  [][\A id \in Ids :
        IF burst[id].n > 0 /\ burst'[id].n = 0 /\ ~Cancels(id)
        THEN /\ Cardinality(UpsertsSent(id)) = 1
             /\ \A k \in UpsertsSent(id) : <<Sent[k].arg>> = burst[id].last
        ELSE UpsertsSent(id) = {}]_vars

\* the timer has run out on a burst of two or more edits and its one upsert
\* is on its way
C4_Witness ==
  \E k \in 1..Len(inbox) :
     /\ inbox[k].op = "upsert" /\ inbox[k].tag.k = "timer" /\ inbox[k].tag.n >= 2
     /\ inbox[k].arg.id \notin DOMAIN pendingSaves

IsWrite(op) == op \in {"upsert", "delete", "updateOrders"}

\* tags of the writes that have not completed in the store
UnfinishedWrites ==
  {inbox[k].tag : k \in {j \in 1..Len(inbox) : IsWrite(inbox[j].op)}}
  \cup {calls[k].tag : k \in {j \in 1..Len(calls) : IsWrite(calls[j].op) /\ calls[j].pc # "ret"}}

\* runs of the selectedDate effect whose byDate has been issued and not answered
LoadsIssued ==
  {inbox[k].tag.e : k \in {j \in 1..Len(inbox) : inbox[j].tag.k = "load"}}
  \cup {calls[k].tag.e : k \in {j \in 1..Len(calls) : calls[j].tag.k = "load"}}

\* C5 as stated: byDate for the new date is not issued until every write made
\* before the date change (sent during an earlier run of the effect, or by
\* this run's flush) has completed in the store.
C5_LoadAfterAllWrites ==
  \A e \in LoadsIssued : \A t \in UnfinishedWrites :
     ~(t.e < e \/ (t.k = "flush" /\ t.e = e))

\* upserts of run e's flush that are unanswered after the step
FlushUnanswered(e) ==
  \/ \E k \in 1..Len(inbox') : inbox'[k].tag.k = "flush" /\ inbox'[k].tag.e = e
  \/ \E k \in 1..Len(calls') : calls'[k].tag.k = "flush" /\ calls'[k].tag.e = e

\* C5 amended: a change of the selected date sends every scheduled write at
\* once (nothing stays scheduled), and byDate for the new date is issued only
\* when every upsert of that flush has been answered or one of them has
\* rejected.  Writes sent earlier (by a timer, delete, updateOrders) are not
\* waited for.
C5_FlushBeforeLoad ==
  [][/\ selectedDate' # selectedDate =>
          /\ DOMAIN pendingSaves' = {}
          /\ \A id \in Ids : timeouts'[id] = 0
          /\ \A id \in DOMAIN pendingSaves :
                \E k \in 1..Len(Sent) :
                   /\ Sent[k].op = "upsert" /\ Sent[k].arg = pendingSaves[id]
                   /\ Sent[k].tag.k = "flush" /\ Sent[k].tag.e = Len(effs')
     /\ \A k \in 1..Len(Sent) :
          Sent[k].tag.k = "load" =>
             /\ Sent[k].arg = effs'[Sent[k].tag.e].date
             /\ ~FlushUnanswered(Sent[k].tag.e) \/ effs'[Sent[k].tag.e].rejected]_vars

\* byDate of a run whose flush sent two upserts has been issued
C5_Witness ==
  \E k \in 1..Len(inbox) :
     /\ inbox[k].tag.k = "load"
     /\ effs[inbox[k].tag.e].n >= 2
     /\ ~effs[inbox[k].tag.e].rejected

\* writes for a record that are scheduled, or sent and not completed
Outstanding(id) ==
  (IF id \in DOMAIN pendingSaves THEN 1 ELSE 0)
  + Cardinality({k \in 1..Len(inbox) : inbox[k].op = "upsert" /\ inbox[k].arg.id = id})
  + Cardinality({k \in 1..Len(calls) :
                   calls[k].op = "upsert" /\ calls[k].arg.id = id /\ calls[k].pc # "ret"})

\* C6 as stated: at every instant at most one write per record is
\* outstanding (scheduled, or sent and not completed).
C6_SingleOutstandingWrite == \A id \in Ids : Outstanding(id) <= 1

\* C6 amended: at every instant at most one write per record is scheduled:
\* one snapshot with one live timer; an edit made while a write is scheduled
\* replaces the snapshot and cancels its timer.  (A write that has been sent
\* is not withdrawn and may be unfinished while the next one is scheduled.)
C6_SingleScheduledWrite ==
  \A id \in Ids :
     /\ timeouts[id] <= 1
     /\ timeouts[id] = 1 <=> id \in DOMAIN pendingSaves
     /\ id \in DOMAIN pendingSaves => <<pendingSaves[id]>> = burst[id].last

\* a second edit has replaced a scheduled write while an earlier upsert of
\* the same record is still on its way
C6_Witness ==
  \E id \in DOMAIN pendingSaves :
     /\ burst[id].n >= 2
     /\ timeouts[id] = 1
     /\ \E k \in 1..Len(inbox) : inbox[k].op = "upsert" /\ inbox[k].arg.id = id

\* how many of the rows r have this id
CountId(r, id) == Cardinality({k \in 1..Len(r) : r[k].id = id})

\* after upsert(R): no id occurs twice in summary(); the number of stored
\* records has grown by one if R.id was not stored and not at all if it was;
\* for each date d of Where, byDate(d) holds R.id once if d is R's date and
\* not at all otherwise
UniqueAfterUpsert(Where) ==
  Resolved("upsert") =>
     LET R == calls[1].arg IN
     /\ \A r \in SummaryResults(todos) : \A id \in Ids : CountId(r, id) <= 1
     /\ Cardinality(DOMAIN todos) =
           Cardinality(DOMAIN calls[1].pre) + (IF R.id \in DOMAIN calls[1].pre THEN 0 ELSE 1)
     /\ \A d \in Where : \A r \in ByDateReply(todos, d) :
           CountId(r, R.id) = (IF d = R.date THEN 1 ELSE 0)

\* C20: id uniqueness.  The store never holds two records with one id; an
\* upsert of a stored id leaves the record count unchanged, an upsert of a
\* new id increases it by one; after an upsert the record is in byDate of
\* its date and in byDate of no other date.
C20_IdUniqueness == UniqueAfterUpsert(Dates)

\* the same for the partitions of a non-empty date only (this holds)
IdUniquenessOnDated ==
  (Resolved("upsert") /\ calls[1].arg.date # "") => UniqueAfterUpsert(Dates \ {""})


\* ------------------------------------ properties of the store under faults
\* the call that has just returned or rejected in a call-by-call run
Finished(op) == Len(calls) = 1 /\ calls[1].op = op /\ calls[1].pc = "ret"

\* the fault of the call struck inside its transaction
FaultInTxn(c) == c.fault[1] \in {"delete", "update", "meta", "commit"}

\* table t is table pre after deleteTodoRow(id): id is gone, no record
\* mentions id, only records that mentioned id have a new updatedAt, and
\* nothing else differs
CascadeApplied(pre, id, t) ==
  /\ DOMAIN t = DOMAIN pre \ {id}
  /\ \A i \in DOMAIN t :
        /\ ~Mentions(RowToTodo(t[i]), id)
        /\ [t[i] EXCEPT !.refs = pre[i].refs, !.rels = pre[i].rels,
                        !.updatedAt = pre[i].updatedAt] = pre[i]
        /\ RowToTodo(t[i]).refs = SelectSeq2(RowToTodo(pre[i]).refs, "NotId", id)
        /\ RowToTodo(t[i]).rels = SelectSeq2(RowToTodo(pre[i]).rels, "NotToId", id)
        /\ (t[i].updatedAt # pre[i].updatedAt) => Mentions(RowToTodo(pre[i]), id)

\* C11: cascade delete is atomic.  When deleteTodoRow(X) rejects, whatever
\* statement failed, table todos is what it was when the call arrived (X is
\* still stored if it was, no record's refs, rels or updatedAt has changed)
\* and no transaction is left open; when it resolves, X is removed and every
\* cascading rewrite is applied.
C11_CascadeDeleteAtomic ==
  Finished("delete") =>
     /\ txn = <<>>
     /\ calls[1].res = "error" => todos = calls[1].pre
     /\ calls[1].res = "true" => CascadeApplied(calls[1].pre, calls[1].arg, todos)

\* deleteTodoRow(X) has rejected because a statement after DELETE failed;
\* X was stored and another record referenced it
C11_Witness ==
  /\ Finished("delete")
  /\ calls[1].res = "error"
  /\ calls[1].fault[1] \in {"update", "meta", "commit"}
  /\ calls[1].arg \in DOMAIN calls[1].pre
  /\ \E i \in DOMAIN calls[1].pre \ {calls[1].arg} :
        Mentions(RowToTodo(calls[1].pre[i]), calls[1].arg)

\* the listed item for record id, <<>> when id is not listed
ItemFor(updates, id) ==
  IF \E k \in 1..Len(updates) : updates[k].id = id
  THEN updates[CHOOSE k \in 1..Len(updates) :
                 updates[k].id = id /\ \A j \in (k + 1)..Len(updates) : updates[j].id # id]
  ELSE <<>>

\* table t is table pre after updateTodoOrders(updates)
OrdersApplied(pre, updates, t) ==
  /\ DOMAIN t = DOMAIN pre
  /\ \A i \in DOMAIN t :
        LET item == ItemFor(updates, i) IN
        IF item = <<>> THEN t[i] = pre[i]
        ELSE t[i] = [pre[i] EXCEPT !.ord = item.order, !.updatedAt = item.updatedAt]

\* C12: updateOrders is atomic across the batch.  When updateTodoOrders
\* resolves, every listed stored record has its new order and updatedAt and
\* no other record has changed; when it rejects, no record has changed; in
\* both cases no transaction is left open.
C12_UpdateOrdersAtomic ==
  Finished("updateOrders") =>
     /\ txn = <<>>
     /\ calls[1].res = "error" => todos = calls[1].pre
     /\ calls[1].res = "true" => OrdersApplied(calls[1].pre, calls[1].arg, todos)

\* updateTodoOrders has rejected after the UPDATE of its first item had
\* been executed, and that UPDATE had changed the record's order
C12_Witness ==
  /\ Finished("updateOrders")
  /\ calls[1].res = "error"
  /\ calls[1].fault \in {<<"update", 2>>, <<"meta", 0>>, <<"commit", 0>>}
  /\ Len(calls[1].arg) = 2
  /\ calls[1].arg[1].id \in DOMAIN calls[1].pre
  /\ calls[1].pre[calls[1].arg[1].id].ord # calls[1].arg[1].order

\* C15: invalid mutation input is rejected before reaching storage.  When
\* upsert of a record without an id (null, no id, empty id) has finished, it
\* has returned false, and table todos and table meta (with the store's
\* last-modified time) are what they were when the call arrived.
C15_InvalidUpsertRejected ==
  (Finished("upsert") /\ Field(calls[1].arg, "id", "") = "") =>
     /\ calls[1].res = "false"
     /\ todos = calls[1].pre
     /\ meta = calls[1].premeta

\* C16: initialization failure is recovered.  A call during which opening
\* the database fails, or the first statement finds that the file is not a
\* database, completes normally.
C16_InitFailureRecovered ==
  \A i \in 1..Len(calls) :
     (calls[i].pc = "ret" /\ calls[i].fault[1] \in {"open", "pragma"}) =>
        calls[i].res # "error"


\* ----------------------------- properties of the store, overlapping requests
\* deleteTodoRow(X) has executed DELETE and still has a rewrite to do, and
\* the rows r hold a record that refers to X while X is not among them
DeleteHalfSeen(r) ==
  \E j \in 1..Len(calls) :
     /\ At(j, "delete", "update")
     /\ \A k \in 1..Len(r) : r[k].id # calls[j].arg
     /\ \E k \in 1..Len(r) : Mentions(r[k], calls[j].arg)

\* updateTodoOrders has executed the UPDATE of item a and not yet that of
\* item b, and the rows r hold a with its new order and b with its old one
OrdersHalfSeen(r) ==
  \E j \in 1..Len(calls) :
     /\ At(j, "updateOrders", "update")
     /\ txn # <<>>
     /\ \E a \in 1..(calls[j].k - 1), b \in calls[j].k..Len(calls[j].arg) :
           \E ka, kb \in 1..Len(r) :
              /\ r[ka].id = calls[j].arg[a].id /\ r[kb].id = calls[j].arg[b].id
              /\ r[ka].order = calls[j].arg[a].order
              /\ r[ka].order # txn[1].todos[r[ka].id].ord
              /\ r[kb].order # calls[j].arg[b].order

\* the read of handler i executes in this step
ReadExecutes(i) ==
  /\ i <= Len(calls')
  /\ calls[i].op \in {"byDate", "summary"}
  /\ calls[i].pc = "select"
  /\ calls'[i].pc = "ret" /\ calls'[i].res = "rows"

\* C13: a cascade delete or a reorder is never partially visible.  No byDate
\* read that executes while deleteTodoRow(X) is in progress returns a record
\* that refers to X without X, and no byDate or summary read that executes
\* while updateTodoOrders is in progress returns some records with their new
\* order and others with their old one.
C13_NoPartialRead ==
  [][\A i \in 1..Len(calls) :
        ReadExecutes(i) =>
           /\ calls[i].op = "byDate" => ~DeleteHalfSeen(calls'[i].rows)
           /\ ~OrdersHalfSeen(calls'[i].rows)]_vars

\* a handler of a mutation has returned or rejected
IsMutation(c) == c.op \in {"upsert", "delete", "updateOrders"}

\* C14: write serialization.  Mutations that are in flight at the same time
\* each complete successfully: no upsert, delete or updateOrders rejects
\* (no statement is failed by the engine in these runs).
C14_WritesSerialized ==
  \A i \in 1..Len(calls) :
     (IsMutation(calls[i]) /\ calls[i].pc = "ret") => calls[i].res # "error"


\* ------------------------------------ properties of the renderer, continued
\* the reply to handler i reaches the renderer in this step
Replied(i) ==
  /\ calls[i].pc = "ret"
  /\ calls' = SubSeq(calls, 1, i - 1) \o SubSeq(calls, i + 1, Len(calls))

\* the code that awaits a call of this kind handles its rejection:
\* `.catch(() => { })` on the timer's upsert, on deleteTodoById and on
\* updateTodoOrders, try/catch around flushPendingSaves; none around the loads
Catches(k) == k \in {"timer", "void", "flush"}

\* C17: write failure does not roll back optimistic state.  When the
\* rejection of a dispatched upsert, delete or updateOrders reaches the
\* renderer, dayTodos, summaryTodos and the selection stay as they are, and
\* the rejection is handled by the code that dispatched the write.
C17_WriteFailureKeepsOptimisticState ==
  [][\A i \in 1..Len(calls) :
        (Replied(i) /\ IsMutation(calls[i]) /\ calls[i].res = "error") =>
           /\ dayTodos' = dayTodos
           /\ summaryTodos' = summaryTodos
           /\ selectedId' = selectedId
           /\ Catches(calls[i].tag.k)]_vars

\* an upsert from a debounce timer has rejected and its reply has been
\* taken; nothing is scheduled or in flight; the day's list still shows the
\* edited title, which the store does not hold
C17_Witness ==
  /\ Drained
  /\ failed
  /\ \E k \in 1..Len(dayTodos) :
        /\ dayTodos[k].title = "a"
        /\ dayTodos[k].id \in DOMAIN todos
        /\ todos[dayTodos[k].id].title = ""

\* the latest local state of a record with a scheduled write: its entry in
\* dayTodos, or the scheduled snapshot when it has left the day's list
LocalState(id) ==
  IF Find(dayTodos, id) # 0 THEN dayTodos[Find(dayTodos, id)] ELSE pendingSaves[id]

\* C18: optimistic lockstep.  While a write is scheduled for a record (it
\* has been created, patched or given an attachment change and the write
\* has not been sent), summaryTodos holds exactly one entry for the record
\* and that entry is the projection (toSummary) of the record's latest local
\* state.
C18_OptimisticLockstep ==
  \A id \in DOMAIN pendingSaves :
     /\ Cardinality({k \in 1..Len(summaryTodos) : summaryTodos[k].id = id}) = 1
     /\ \E k \in 1..Len(summaryTodos) : summaryTodos[k] = toSummary(LocalState(id))

\* the record refers to itself
SelfReference(t) == Mentions(t, t.id)

\* C19: no self-reference.  Starting from a store without self-references,
\* through any sequence of gestures no record refers to itself (its id in
\* its refs or as the toId of one of its rels): not in dayTodos, not in a
\* scheduled snapshot, not in an upsert on its way or being handled, and not
\* in the store.
C19_NoSelfReference ==
  /\ \A k \in 1..Len(dayTodos) : ~SelfReference(dayTodos[k])
  /\ \A id \in DOMAIN pendingSaves : ~SelfReference(pendingSaves[id])
  /\ \A k \in 1..Len(inbox) : inbox[k].op = "upsert" => ~SelfReference(inbox[k].arg)
  /\ \A k \in 1..Len(calls) : calls[k].op = "upsert" => ~SelfReference(calls[k].arg)
  /\ \A id \in DOMAIN todos : ~SelfReference(RowToTodo(todos[id]))

\* a relation added with Add relation has been stored, and a record of the
\* day has a reference ticked in the reference list
C19_Witness ==
  /\ \E id \in DOMAIN todos : Len(RowToTodo(todos[id]).rels) > 0
  /\ \E k \in 1..Len(dayTodos) : Len(dayTodos[k].refs) > 0


\* ------------------------------------------- the store read back, any text
\* The columns refs, rels and attachments are TEXT: the file may hold any
\* text there (written by another program or by hand).  The texts a column
\* holds here: an array as upsertTodoRow writes it, or a text that is not
\* valid JSON (empty, cut off, a trailing comma), or valid JSON that is not
\* an array (a string, an object).
SampleValue(col) ==
  CASE col = "refs" -> <<"t2">>
    [] col = "rels" -> <<[toId |-> "t2", type |-> "depends"]>>
    [] OTHER        -> <<SampleAttachment>>

MalformedTexts ==
  {<<>>,
   <<"[", Q, "t2", Q>>,
   <<"[", Q, "t2", Q, ",", "]">>,
   JsonStr("t2"),
   JsonObj2("toId", "t2", "type", "depends")}

StoredTexts(col) == {EmptyArr, JsonStringify(col, SampleValue(col))} \cup MalformedTexts

\* state after construction: no connection; the file holds t1 with any of
\* these texts in its three columns, and t2 as upsertTodoRow wrote it
ParseInit ==
  /\ db = FALSE
  /\ dbInitPromise = FALSE
  /\ txn = <<>>
  /\ clock = 0
  /\ schema = {"meta", "todos"}
  /\ \E a \in StoredTexts("refs"), b \in StoredTexts("rels"),
        c \in StoredTexts("attachments") :
        todos = [StoredTodos EXCEPT !["t1"] =
                   [@ EXCEPT !.title = "a", !.refs = a, !.rels = b, !.attachments = c]]
  /\ meta = StoredMeta
  /\ calls = <<>>
  /\ ClientIdle

ParseNext ==
  \/ \E d \in UserDates : Invoke("byDate", d)
  \/ Invoke("summary", "")
  \/ Collect
  \/ (StoreStep /\ UNCHANGED <<clock, clientVars>>)

ParseSpec == ParseInit /\ [][ParseNext]_vars


\* ------------------------------------------ properties of the store, reads
\* the rows r are the stored records of date d, each once and as stored
\* (RowToTodo), by order ascending and, for equal order, updatedAt ascending
ExactlyDate(r, d) ==
  /\ {r[k].id : k \in 1..Len(r)} = {i \in DOMAIN todos : todos[i].date = d}
  /\ \A j, k \in 1..Len(r) : j # k => r[j].id # r[k].id
  /\ \A k \in 1..Len(r) : r[k] = RowToTodo(todos[r[k].id])
  /\ \A j, k \in 1..Len(r) :
        j < k => \/ r[j].order < r[k].order
                 \/ r[j].order = r[k].order /\ r[j].updatedAt <= r[k].updatedAt

ByDateExact(Where) == \A d \in Where : \A r \in ByDateReply(todos, d) : ExactlyDate(r, d)

\* C21: byDate(d) returns exactly the stored records whose date equals d
\* (none from another date, none of that date missing), sorted by order
\* ascending with ties broken by updatedAt ascending, for every date a
\* stored record may have (upsert stores a record whose date is empty).
C21_ByDateExact == ByDateExact(Dates)

\* the same for the non-empty dates only (this holds)
ByDateExactOnDated == ByDateExact(Dates \ {""})

Columns == {"refs", "rels", "attachments"}

\* C22: malformed stored fields degrade.  When byDate has finished on a
\* store in which refs, rels or attachments of a record hold a text that is
\* not valid JSON or not an array, the call has not rejected, the record is
\* among the rows with that field an empty list, and its other fields are
\* the stored ones (a well-formed column comes back as the list it encodes).
C22_MalformedFieldsDegrade ==
  Finished("byDate") =>
     /\ calls[1].res = "rows"
     /\ \A i \in DOMAIN todos :
           todos[i].date = calls[1].arg =>
              \E k \in 1..Len(calls[1].rows) :
                 LET row == calls[1].rows[k] IN
                 /\ row.id = i
                 /\ row.title = todos[i].title /\ row.content = todos[i].content
                 /\ row.status = todos[i].status /\ row.date = todos[i].date
                 /\ row.order = todos[i].ord
                 /\ row.createdAt = todos[i].createdAt
                 /\ row.updatedAt = todos[i].updatedAt
                 /\ \A col \in Columns :
                       IF todos[i][col] \in MalformedTexts THEN row[col] = <<>>
                       ELSE JsonStringify(col, row[col]) = todos[i][col]

\* byDate has returned a record whose refs column holds a JSON string, whose
\* rels column is cut off and whose attachments column is well formed
C22_Witness ==
  /\ Finished("byDate")
  /\ \E k \in 1..Len(calls[1].rows) :
        LET row == calls[1].rows[k] IN
        /\ todos[row.id].refs = JsonStr("t2")
        /\ todos[row.id].rels = <<"[", Q, "t2", Q>>
        /\ row.refs = <<>> /\ row.rels = <<>>
        /\ Len(row.attachments) = 1


\* ------------------------------------------ properties of the renderer, order
\* the step is onDragEnd past its early returns: it sends updateOrders
DragEnds == \E k \in 1..Len(Sent) : Sent[k].op = "updateOrders"

\* ids of the records of the selected date in the day's list
PartitionIds == {dayTodos[k].id : k \in {j \in 1..Len(dayTodos) : dayTodos[j].date = selectedDate}}

\* the entry of record id in the list s has this order
HasOrder(s, id, ord) == \E k \in 1..Len(s) : s[k].id = id /\ s[k].order = ord

\* what onDragEnd does to dayTodos, to the messages and to the debounce
\* maps, u being the list it sends: u is the shown list with one item moved,
\* numbered 0..n-1; it lists each record of the partition once; every record
\* of the partition has its number as order in dayTodos, which shows them in
\* the order of u; one message is sent and nothing is scheduled or cancelled
DragApplied(u) ==
  /\ Len(Sent) = 1
  /\ \E a, o \in 1..Len(todosForDay) :
        a # o /\ IdsOf(u) = arrayMove(IdsOf(todosForDay), a, o)
  /\ {u[k].id : k \in 1..Len(u)} = PartitionIds /\ Len(u) = Cardinality(PartitionIds)
  /\ \A k \in 1..Len(u) : u[k].order = k - 1 /\ HasOrder(dayTodos', u[k].id, k - 1)
  /\ IdsOf(dayTodos') = IdsOf(dayTodos)
  /\ IdsOf(todosForDay') = IdsOf(u)
  /\ pendingSaves' = pendingSaves /\ timeouts' = timeouts /\ saveTimers' = saveTimers

\* C23: drag reorder.  onDragEnd with distinct active and over items of the
\* selected date gives the records of that partition the orders 0..n-1
\* following the moved list, in dayTodos and in summaryTodos (every record
\* of the partition has an entry there with its new order), sends exactly
\* one updateOrders that lists every record of the partition, and schedules
\* no debounced write.
C23_DragReorder ==
  [][DragEnds =>
        /\ DragApplied(Sent[1].arg)
        /\ \A k \in 1..Len(Sent[1].arg) :
              HasOrder(summaryTodos', Sent[1].arg[k].id, k - 1)]_vars

\* the same without the part on summaryTodos, which instead says: the
\* entries summaryTodos holds for records of the partition get the new
\* order, and summaryTodos holds the same records as before (this holds)
DragReorderOfDayTodos ==
  [][DragEnds =>
        /\ DragApplied(Sent[1].arg)
        /\ IdsOf(summaryTodos') = IdsOf(summaryTodos)
        /\ \A j \in 1..Len(summaryTodos') : \A k \in 1..Len(Sent[1].arg) :
              summaryTodos'[j].id = Sent[1].arg[k].id => summaryTodos'[j].order = k - 1]_vars


\* updateTodoOrders of handler i returns true in this step (COMMIT succeeds)
BatchCompletes(i) ==
  /\ Len(calls') = Len(calls)
  /\ calls[i].op = "updateOrders" /\ calls[i].pc = "commit"
  /\ calls'[i].pc = "ret" /\ calls'[i].res = "true"

\* the stored records the batch lists
Touched(updates, t) == {updates[k].id : k \in 1..Len(updates)} \cap DOMAIN t

\* C24: shared batch timestamp.  When an updateOrders batch (as onDragEnd
\* builds it) completes, every stored record the batch lists carries the
\* same updatedAt in the store, the one the batch was sent with.
C24_SharedBatchTimestamp ==
  [][\A i \in 1..Len(calls) :
        BatchCompletes(i) =>
           \A a \in Touched(calls[i].arg, todos') :
              todos'[a].updatedAt = calls[i].arg[1].updatedAt]_vars


\* ------------------------------------ properties of the store, cascade frame
\* handler i executes the statement it was waiting for in this step, and the
\* statement succeeds
Executes(i, op, pc) ==
  /\ Len(calls') = Len(calls)
  /\ At(i, op, pc)
  /\ calls'[i] # calls[i]
  /\ calls'[i].pc \notin {"rollback", "ret"} \/ calls'[i].res = "true"

\* the step changes no stored record but id
OnlyChanges(id) ==
  /\ DOMAIN todos' = DOMAIN todos
  /\ \A j \in DOMAIN todos \ {id} : todos'[j] = todos[j]

\* C25: cascade delete frame.  The only records deleteTodoRow(X) rewrites
\* are records that contain X in refs or in a rels[].toId when it rewrites
\* them; such a record gets the time of the call as updatedAt, loses X from
\* refs and rels with the other entries kept in their order, and keeps its
\* other fields; every other record (a candidate matched by the LIKE pattern
\* only included) keeps all its fields, updatedAt included; DELETE removes X
\* and nothing else.
C25_CascadeDeleteFrame ==
  [][\A i \in 1..Len(calls) :
        /\ Executes(i, "delete", "delete") =>
              /\ DOMAIN todos' = DOMAIN todos \ {calls[i].arg}
              /\ \A j \in DOMAIN todos' : todos'[j] = todos[j]
        /\ Executes(i, "delete", "update") =>
              LET X == calls[i].arg
                  r == calls[i].rows[calls[i].k].id
              IN /\ OnlyChanges(r)
                 /\ r \in DOMAIN todos =>
                       /\ Mentions(RowToTodo(todos[r]), X)
                       /\ todos'[r] = [todos[r] EXCEPT !.refs = todos'[r].refs,
                                                       !.rels = todos'[r].rels,
                                                       !.updatedAt = calls[i].now]
                       /\ RowToTodo(todos'[r]).refs =
                             SelectSeq2(RowToTodo(todos[r]).refs, "NotId", X)
                       /\ RowToTodo(todos'[r]).rels =
                             SelectSeq2(RowToTodo(todos[r]).rels, "NotToId", X)
        /\ (/\ Len(calls') = Len(calls)
            /\ calls[i].op = "delete" /\ calls'[i] # calls[i]
            /\ calls[i].pc \notin {"delete", "update", "rollback"}) => todos' = todos]_vars


\* ------------------------------------------ properties of the store, upsert
\* the stored columns a record supplies, an absent field being its default
Supplied(R) ==
  [title |-> Field(R, "title", ""), content |-> Field(R, "content", ""),
   status |-> Field(R, "status", "TODO"), date |-> Field(R, "date", ""),
   order |-> Field(R, "order", 0), refs |-> Field(R, "refs", <<>>),
   rels |-> Field(R, "rels", <<>>), attachments |-> Field(R, "attachments", <<>>)]

\* C26: wholesale replace.  When the INSERT of upsert(R) executes for an id
\* that is stored, the stored title, content, status, date, order, refs,
\* rels and attachments become those of R, an absent field of R becoming its
\* default (empty string, TODO, 0, empty list), whatever was stored before;
\* no other record changes.
C26_WholesaleReplace ==
  [][\A i \in 1..Len(calls) :
        (Executes(i, "upsert", "insert") /\ calls[i].arg.id \in DOMAIN todos) =>
           LET R == calls[i].arg
               row == RowToTodo(todos'[R.id])
           IN /\ OnlyChanges(R.id)
              /\ \A f \in DOMAIN Supplied(R) : row[f] = Supplied(R)[f]]_vars

\* an upsert of a record without refs, rels and order has resolved over a
\* stored record that had an order above 0 and a reference or a relation
C26_Witness ==
  /\ Resolved("upsert")
  /\ DOMAIN calls[1].arg \cap {"refs", "rels", "order"} = {}
  /\ calls[1].arg.id \in DOMAIN calls[1].pre
  /\ calls[1].pre[calls[1].arg.id].ord > 0
  /\ calls[1].pre[calls[1].arg.id].rels # EmptyArr
  /\ todos[calls[1].arg.id].rels = EmptyArr /\ todos[calls[1].arg.id].ord = 0


\* ---------------------------------------- properties of the renderer, create
\* the step is createTodo: uid() hands out an id
Creates == nextUid' = nextUid + 1

\* the id is in use nowhere: not shown, not in the summary, not scheduled,
\* not stored
Fresh(id) ==
  /\ \A k \in 1..Len(dayTodos) : dayTodos[k].id # id
  /\ \A k \in 1..Len(summaryTodos) : summaryTodos[k].id # id
  /\ id \notin DOMAIN pendingSaves \cup DOMAIN todos

\* C27: createTodo appends to the day's list a record with a fresh id,
\* status TODO, empty title, content, refs, rels and attachments, the
\* selected date, and as order 1 + the largest order of the records shown for
\* that date (0 when none is shown); the new record is shown after every
\* record that was shown.
C27_CreateTodo ==
  [][Creates =>
        LET t == dayTodos'[Len(dayTodos')] IN
        /\ dayTodos' = Append(dayTodos, t)
        /\ Fresh(t.id)
        /\ t.status = "TODO" /\ t.title = "" /\ t.content = ""
        /\ t.refs = <<>> /\ t.rels = <<>> /\ t.attachments = <<>>
        /\ t.date = selectedDate
        /\ IF Len(todosForDay) = 0 THEN t.order = 0
           ELSE /\ \A k \in 1..Len(todosForDay) : todosForDay[k].order < t.order
                /\ \E k \in 1..Len(todosForDay) : todosForDay[k].order + 1 = t.order
        /\ todosForDay' = Append(todosForDay, t)]_vars

\* a second record has been created on a day that showed one: it is shown
\* last, with the next order, and its write is scheduled
C27_Witness ==
  /\ nextUid = 2
  /\ Len(todosForDay) = 2
  /\ todosForDay[2].id = IdSeq[2] /\ todosForDay[2].order = todosForDay[1].order + 1
  /\ IdSeq[2] \in DOMAIN pendingSaves


\* --------------------------- the whole program on a store with two days
\* state after construction, as Init, on a database file an earlier run
\* left: either the two records of StoredTodos on the day the program starts
\* on, or one record, t1, created on the other day (createTodo gave it order
\* 0 there), the next id of uid() being t2
OtherDayInit ==
  /\ db = FALSE
  /\ dbInitPromise = FALSE
  /\ txn = <<>>
  /\ clock = 0
  /\ schema = {"meta", "todos"} /\ meta = StoredMeta
  /\ \/ todos = StoredTodos /\ nextUid = Len(IdSeq)
     \/ todos = [id \in {"t1"} |-> UpsertParams(BaseTodo("t1", "d2", 0), 0)] /\ nextUid = 1
  /\ calls = <<>>
  /\ inbox = <<Msg("summary", "", "summary", 1), Msg("byDate", "d1", "load", 1)>>
  /\ selectedDate = "d1"
  /\ selectedId = ""
  /\ dayTodos = <<>>
  /\ summaryTodos = <<>>
  /\ pendingSaves = NoTodos
  /\ saveTimers = {}
  /\ timeouts = [i \in Ids |-> 0]
  /\ effs = <<Run("d1", "load", 0)>>
  /\ fileOps = <<>>
  /\ gestures = 0
  /\ nextAtt = 0
  /\ deleted = {}
  /\ burst = [i \in Ids |-> NoBurst]
  /\ failed = FALSE

OtherDaySpec == OtherDayInit /\ [][Next]_vars

\* no two entries of the list s that have the same date have the same order
UniqueOrders(s) ==
  \A j, k \in 1..Len(s) :
     (j # k /\ s[j].date = s[k].date) => s[j].order # s[k].order

\* C28: order uniqueness.  Within each date no two records have the same
\* order: not in dayTodos, not in summaryTodos, and not in the store once
\* every scheduled and in-flight write has drained without a rejection.
C28_OrderUnique ==
  /\ UniqueOrders(dayTodos)
  /\ UniqueOrders(summaryTodos)
  /\ (Drained /\ ~failed) =>
        \A a, b \in DOMAIN todos :
           (a # b /\ todos[a].date = todos[b].date) => todos[a].ord # todos[b].ord

\* a record created on a day whose list had been loaded, and then moved by
\* patchTodo to the day of a stored record, has that record's order: in
\* summaryTodos and, all writes drained, in the store
MovedIntoTakenOrder ==
  /\ Drained /\ ~failed
  /\ selectedDate = "d1" /\ gestures = 2
  /\ DOMAIN todos = Ids
  /\ todos["t1"].date = "d2" /\ todos["t2"].date = "d2"
  /\ todos["t1"].ord = todos["t2"].ord
  /\ todos["t2"].updatedAt > todos["t2"].createdAt
  /\ ~UniqueOrders(summaryTodos)


\* --------------------------------------- properties of updatedAt and order
\* no entry of the list that is kept by the step gets an older updatedAt
ListNotOlder(s, t) ==
  \A j \in 1..Len(s), k \in 1..Len(t) :
     s[j].id = t[k].id => t[k].updatedAt >= s[j].updatedAt

\* no stored record that is kept by the step gets an older updatedAt
StoreNotOlder ==
  \A id \in DOMAIN todos \cap DOMAIN todos' : todos'[id].updatedAt >= todos[id].updatedAt

\* an entry of dayTodos that a gesture or an answer of the file bridge
\* changes gets the time of that step as updatedAt
EditsStamp ==
  clock' # clock =>
     \A j \in 1..Len(dayTodos), k \in 1..Len(dayTodos') :
        (dayTodos[j].id = dayTodos'[k].id /\ dayTodos'[k] # dayTodos[j]) =>
           dayTodos'[k].updatedAt = clock'

\* a stored record that an UPDATE of updateTodoOrders or of the cascade
\* changes gets the time of the batch, or of the delete call, as updatedAt
RewritesStamp ==
  \A i \in 1..Len(calls) :
     /\ Executes(i, "updateOrders", "update") =>
           \A id \in DOMAIN todos \cap DOMAIN todos' :
              todos'[id] # todos[id] => todos'[id].updatedAt = calls[i].arg[calls[i].k].updatedAt
     /\ Executes(i, "delete", "update") =>
           \A id \in DOMAIN todos \cap DOMAIN todos' :
              todos'[id] # todos[id] => todos'[id].updatedAt = calls[i].now

\* C29: updatedAt is refreshed on every mutation.  Each edit of the client
\* (patchTodo, attachment change, reorder, the cascade of deleteTodo) and
\* each rewrite of the store (reorder, cascade) gives the record the time of
\* that mutation as updatedAt, and no step makes the updatedAt of a record
\* older than it was: not in dayTodos, not in summaryTodos, not in the store.
C29_UpdatedAtRefreshed ==
  [][/\ EditsStamp
     /\ RewritesStamp
     /\ ListNotOlder(dayTodos, dayTodos')
     /\ ListNotOlder(summaryTodos, summaryTodos')
     /\ StoreNotOlder]_vars


\* every record shown for the selected date that is stored has in the store
\* the order it has in dayTodos
SameOrderAsShown ==
  \A k \in 1..Len(todosForDay) :
     todosForDay[k].id \in DOMAIN todos =>
        todos[todosForDay[k].id].ord = todosForDay[k].order

\* C30: a debounced write that is scheduled for a record when a drag reorder
\* happens does not overwrite the reordered position.  Once updateOrders and
\* every debounced write have drained (no call having rejected, the selected
\* date never changed), every record of the partition has the same order in
\* the store as in dayTodos.
C30_PendingWriteKeepsReorder ==
  (Drained /\ ~failed /\ Len(effs) = 1 /\ effs[1].stage = "done") => SameOrderAsShown


\* ------------------------------------------ properties of the date's load
\* the fields local state and the store are compared on
Synced(t) ==
  [id |-> t.id, title |-> t.title, content |-> t.content, status |-> t.status,
   date |-> t.date, order |-> t.order, refs |-> t.refs, rels |-> t.rels]

\* dayTodos restricted to the selected date, and what byDate(selectedDate)
\* finds in the store
ShownRecords == {Synced(todosForDay[k]) : k \in 1..Len(todosForDay)}

StoredForDay ==
  {Synced(RowToTodo(todos[i])) : i \in {j \in DOMAIN todos : todos[j].date = selectedDate}}

\* C31: convergence.  In every state where no debounced write is scheduled,
\* no store call is in flight and no store call has failed, dayTodos
\* restricted to the selected date and the store's byDate(selectedDate) hold
\* the same record ids with equal title, content, status, date, order, refs
\* and rels (createTodo or patchTodo running while the load of the newly
\* selected date is unanswered included).
C31_Convergence == (Drained /\ ~failed) => ShownRecords = StoredForDay

\* C32: stale load discard.  When the selected date has changed before
\* byDate of an earlier run of the effect (or the flush before it) resolves,
\* the result of that run is not written into dayTodos; the result of the
\* run for the selected date is, whichever of the loads resolves first.  A
\* load is for the date of its run, and the last run is for the selected
\* date.
C32_StaleLoadDiscard ==
  [][/\ \A i \in 1..Len(calls) :
          (Replied(i) /\ calls[i].tag.k = "load") =>
             /\ calls[i].arg = effs[calls[i].tag.e].date
             /\ IF calls[i].tag.e = Len(effs)
                THEN /\ calls[i].arg = selectedDate
                     /\ calls[i].res = "rows" =>
                           dayTodos' = [k \in 1..Len(calls[i].rows) |->
                                          normalizeTodo(calls[i].rows[k])]
                ELSE dayTodos' = dayTodos
     /\ effs'[Len(effs')].date = selectedDate']_vars

\* the date was changed while byDate of the first run was unanswered; its
\* rows have since come back and dayTodos does not show them, and byDate of
\* the second run is still unanswered (the store holds records for the first
\* date, and the change of date is the only gesture made)
C32_Witness ==
  /\ Len(effs) = 2 /\ effs[1].stage = "done" /\ effs[2].stage = "load"
  /\ gestures = 1
  /\ \E i \in DOMAIN todos : todos[i].date = effs[1].date
  /\ dayTodos = <<>>


\* --------------------------------------------- properties of initTodoStore
\* the statements of initTodoStore
InitPcs == {"open", "pragma", "createMeta", "createTodos", "index", "getVersion",
            "insVersion", "insUpdatedAt"}

\* a handler is running initTodoStore
Initialising == \E i \in 1..Len(calls) : calls[i].pc \in InitPcs

\* initTodoStore has finished: the connection is open, both tables and the
\* meta rows exist
InitComplete ==
  /\ db /\ ~Initialising
  /\ schema = {"meta", "todos"}
  /\ {"version", "updatedAt"} \subseteq DOMAIN meta

\* handler i runs a statement of loadTodosByDate, loadTodoSummaryIndex,
\* upsertTodoRow, deleteTodoRow or updateTodoOrders in this step
RunsQuery(i) ==
  /\ Len(calls') = Len(calls)
  /\ calls'[i] # calls[i]
  /\ calls[i].pc \notin InitPcs \cup {"new", "awaitInit", "ret"}

\* C33: no store query runs before initialisation is complete.  However the
\* store calls made at start-up interleave, the database is opened once (by
\* one handler, the connection then stays), and no statement of
\* loadTodosByDate, loadTodoSummaryIndex, upsertTodoRow, deleteTodoRow or
\* updateTodoOrders runs before initTodoStore has created the tables, the
\* indexes and the meta rows.
C33_NoQueryBeforeInit ==
  [][/\ Cardinality({i \in 1..Len(calls) : calls[i].pc \in InitPcs}) <= 1
     /\ db => db' /\ ~(\E i \in 1..Len(calls) : calls[i].pc = "open")
     /\ \A i \in 1..Len(calls) : RunsQuery(i) => InitComplete]_vars

\* the database is opened once: one handler at a time runs initTodoStore,
\* and none opens the file while the connection exists
OpenedOnce ==
  /\ Cardinality({i \in 1..Len(calls) : calls[i].pc \in InitPcs}) <= 1
  /\ db => ~(\E i \in 1..Len(calls) : calls[i].pc = "open")


\* ----------------------------- properties of the cascade under interleaving
\* ids of the candidate rows deleteTodoRow's scan returned to handler i
ScanIds(i) == {calls[i].rows[k].id : k \in 1..Len(calls[i].rows)}

\* records that did not match the scan of handler i and referred to X when
\* its transaction began: a reference to X was stored in between
ReferenceAddedSinceScan(i) ==
  {r \in DOMAIN txn[1].todos \ (ScanIds(i) \cup {calls[i].arg}) :
     Mentions(RowToTodo(txn[1].todos[r]), calls[i].arg)}

\* C34: the cascade is not defeated by interleaving.  When an upsert that
\* adds a reference to X has completed after deleteTodoRow(X) scanned for
\* candidates and before its transaction began (so before it deleted X), the
\* record does not refer to X in refs or rels once the delete has committed.
C34_CascadeNotDefeated ==
  [][\A i \in 1..Len(calls) :
        (Executes(i, "delete", "commit") /\ calls'[i].res = "true") =>
           \A r \in ReferenceAddedSinceScan(i) \cap DOMAIN todos' :
              ~Mentions(RowToTodo(todos'[r]), calls[i].arg)]_vars


\* ------------------------------------------------- liveness of write-back
\* The whole program under the scheduling the platform gives: a timeout that
\* stays armed runs out, a message that was sent is delivered, a statement
\* that was issued is executed, a reply and an answer of the file bridge
\* arrive.  (Gestures are the user's: nothing forces them.)
Fairness ==
  /\ WF_vars(TimerFire)
  /\ WF_vars(Deliver)
  /\ WF_vars(StoreStep /\ UNCHANGED <<clock, clientVars>>)
  /\ WF_vars(Reply)
  /\ WF_vars(FileReply)

\* the window after start-up: the connection is open, the summary and the
\* day's list have been loaded from a new database or from the records of an
\* earlier run, nothing is in flight
LoadedInit ==
  /\ db = TRUE
  /\ dbInitPromise = FALSE
  /\ txn = <<>>
  /\ clock = 0
  /\ schema = {"meta", "todos"}
  /\ meta = StoredMeta
  /\ \/ todos = NoTodos /\ nextUid = 0
     \/ todos = StoredTodos /\ nextUid = Len(IdSeq)
  /\ calls = <<>>
  /\ inbox = <<>>
  /\ selectedDate = "d1"
  /\ selectedId = ""
  /\ dayTodos \in {[k \in 1..Len(r) |-> normalizeTodo(r[k])] : r \in ByDateReply(todos, "d1")}
  /\ summaryTodos \in {[k \in 1..Len(r) |-> normalizeSummary(r[k])] : r \in SummaryResults(todos)}
  /\ pendingSaves = NoTodos
  /\ saveTimers = {}
  /\ timeouts = [i \in Ids |-> 0]
  /\ effs = <<Run("d1", "done", 0)>>
  /\ fileOps = <<>>
  /\ gestures = 0
  /\ nextAtt = 0
  /\ deleted = {}
  /\ burst = [i \in Ids |-> NoBurst]
  /\ failed = FALSE

LiveSpec == LoadedInit /\ [][Next]_vars /\ Fairness

\* the step takes the scheduled snapshot of id out of pendingSaves
Unscheduled(id) == id \in DOMAIN pendingSaves /\ id \notin DOMAIN pendingSaves'

\* C35: liveness of write-back.  The step that takes a scheduled write out
\* of pendingSaves either dispatches upsert with the scheduled snapshot,
\* which is that of the last edit (from the timer or from a flush), or is
\* deleteTodo of the record; and in every run the set of pending writes is
\* in the end empty for good, the edits having stopped: so every write that
\* scheduleUpsert has scheduled is dispatched, unless the record is deleted
\* first.
C35_WriteBackLiveness ==
  /\ [][\A id \in Ids :
          Unscheduled(id) =>
             \/ Cancels(id)
             \/ /\ <<pendingSaves[id]>> = burst[id].last
                /\ \E k \in 1..Len(Sent) :
                      /\ Sent[k].op = "upsert" /\ Sent[k].arg = pendingSaves[id]
                      /\ Sent[k].tag.k \in {"timer", "flush"}]_vars
  /\ <>[](DOMAIN pendingSaves = {})

\* a write that was scheduled has been dispatched by its timer and stored:
\* nothing is scheduled or in flight, and the store holds the edited title
C35_Witness ==
  /\ Drained /\ ~failed
  /\ Len(effs) = 1
  /\ \E id \in DOMAIN todos : todos[id].title = "a" /\ burst[id] = NoBurst


\* ------------------------------------------- the frame of updateTodoOrders
\* updateOrders called with any list a caller may pass: empty, not an array,
\* entries without an id or with an empty id, ids the store does not hold,
\* entries without order or updatedAt, an id listed twice, and the lists
\* onDragEnd builds
OddOrders(now) ==
  {<<>>, NotAnArray,
   <<[order |-> 1, updatedAt |-> now]>>,
   <<[id |-> "", order |-> 1, updatedAt |-> now]>>,
   <<[id |-> "t2", order |-> 5, updatedAt |-> now]>>,
   <<[id |-> "t1"]>>,
   <<[order |-> 3], [id |-> "t2", order |-> 1, updatedAt |-> now], [id |-> "t1", order |-> 4]>>,
   <<[id |-> "t1", order |-> 2, updatedAt |-> now], [id |-> "t1", order |-> 3]>>}

InvokeOddOrders ==
  /\ Idle
  /\ clock < MaxCalls
  /\ clock' = clock + 1
  /\ \E u \in OddOrders(clock) \cup OrdersInputs(todos, clock) :
        ArriveCall([NewCall("updateOrders", u, Tag("caller", 0), todos)
                      EXCEPT !.premeta = meta])
  /\ UNCHANGED <<db, schema, todos, meta, txn, clientVars>>

\* state after construction: no connection; the database file is new, or
\* holds one record or two of an earlier run
OrdersInit ==
  /\ db = FALSE
  /\ dbInitPromise = FALSE
  /\ txn = <<>>
  /\ clock = 0
  /\ \/ schema = {} /\ todos = NoTodos /\ meta = NoTodos
     \/ /\ schema = {"meta", "todos"} /\ meta = StoredMeta
        /\ todos \in {StoredTodos, [id \in {"t1"} |-> StoredTodos[id]]}
  /\ calls = <<>>
  /\ ClientIdle

OrdersNext ==
  \/ InvokeOddOrders
  \/ Collect
  \/ (StoreStep /\ UNCHANGED <<clock, clientVars>>)

OrdersSpec == OrdersInit /\ [][OrdersNext]_vars

\* the last entry of the list for this id, <<>> when there is none
LastItemFor(updates, id) ==
  LET K == {k \in 1..Len(updates) : Field(updates[k], "id", "") = id}
  IN IF K = {} THEN <<>> ELSE <<updates[CHOOSE k \in K : \A m \in K : m <= k]>>

\* C36: the frame of updateTodoOrders.  No statement of the handler inserts
\* or deletes a record or changes a title, content, status, date, refs,
\* rels, attachments or createdAt, and its UPDATE for an entry changes no
\* record but the one the entry names.  When the call resolves, a stored
\* record that the list names has the order and updatedAt of its (last)
\* entry (order 0 and the time of the call where the entry gives none) and
\* every other record is as it was: ids the store does not hold and entries
\* without an id have no effect.  With an empty list or an argument that is
\* not an array the call issues no statement of its own (it may be the call
\* that runs initTodoStore) and returns true.
C36_UpdateOrdersFrame ==
  [][\A i \in 1..Len(calls) :
        (calls[i].op = "updateOrders" /\ Len(calls') = Len(calls) /\ calls'[i] # calls[i]) =>
           /\ DOMAIN todos' = DOMAIN todos
           /\ \A id \in DOMAIN todos :
                 /\ todos'[id] = [todos[id] EXCEPT !.ord = todos'[id].ord,
                                                   !.updatedAt = todos'[id].updatedAt]
                 /\ todos'[id] # todos[id] =>
                       /\ calls[i].pc = "update"
                       /\ calls[i].arg[calls[i].k].id = id
           /\ calls'[i].res = "true" =>
                 /\ \A id \in DOMAIN todos' :
                       LET item == LastItemFor(calls[i].arg, id) IN
                       IF ~IsArray(calls[i].arg) \/ item = <<>>
                       THEN todos'[id] = calls[i].pre[id]
                       ELSE todos'[id] =
                              [calls[i].pre[id] EXCEPT
                                 !.ord = Field(item[1], "order", 0),
                                 !.updatedAt = Field(item[1], "updatedAt", calls[i].now)]
           /\ (~IsArray(calls[i].arg) \/ Len(calls[i].arg) = 0) =>
                 /\ calls[i].pc \in InitPcs \cup {"awaitInit"}
                 /\ calls'[i].pc \in InitPcs => calls'[i].res = "none"
                 /\ calls'[i].pc \notin InitPcs =>
                       calls'[i].pc = "ret" /\ calls'[i].res = "true"]_vars

\* updateOrders has resolved for a list with an entry without an id, an id
\* the store does not hold and a stored id: the stored record has the new
\* order, and the store holds no other record
C36_Witness ==
  /\ Finished("updateOrders") /\ calls[1].res = "true"
  /\ Len(calls[1].arg) = 3
  /\ DOMAIN todos = {"t1"}
  /\ todos["t1"].ord = 4 /\ calls[1].pre["t1"].ord # 4


\* ------------------------------------------------- properties of createdAt
\* C37: createdAt is immutable in the store.  No statement changes the
\* createdAt of a record that stays stored: an upsert of an id that is
\* stored keeps the createdAt of the first insert whatever createdAt the
\* supplied record carries, and the UPDATEs of the cascade and of
\* updateOrders (and ROLLBACK) leave createdAt as it is.
C37_CreatedAtImmutable ==
  [][\A id \in DOMAIN todos \cap DOMAIN todos' :
        todos'[id].createdAt = todos[id].createdAt]_vars

\* an upsert of a stored id has resolved whose record carried another
\* createdAt: the row has the new updatedAt and the createdAt it had
C37_Witness ==
  /\ Finished("upsert") /\ calls[1].res = "true"
  /\ calls[1].arg.id \in DOMAIN calls[1].pre
  /\ "createdAt" \in DOMAIN calls[1].arg
  /\ calls[1].arg.createdAt # calls[1].pre[calls[1].arg.id].createdAt
  /\ todos[calls[1].arg.id].updatedAt = calls[1].arg.updatedAt
  /\ todos[calls[1].arg.id].createdAt = calls[1].pre[calls[1].arg.id].createdAt


\* ------------------------------------- properties of the debounce's two maps
\* C38: in every state of the renderer between two of its handlers, the ids
\* that have a timer handle in saveTimersRef are the ids that have a
\* snapshot in pendingSavesRef (scheduleUpsert, the timer callback,
\* clearPendingSave and flushPendingSaves keep the two maps in step).
C38_TimersMatchPending == saveTimers = DOMAIN pendingSaves

\* deleteTodo has cancelled the write scheduled for t1 (created, never sent:
\* delete(t1) has not reached the store, which does not hold t1, and no
\* upsert of t1 is in flight) while a write for t2 is still scheduled
C38_Witness ==
  /\ ~failed
  /\ "t1" \in deleted /\ "t1" \notin DOMAIN todos
  /\ \E k \in 1..Len(inbox) : inbox[k].op = "delete" /\ inbox[k].arg = "t1"
  /\ \A k \in 1..Len(inbox) : inbox[k].op # "upsert"
  /\ \A k \in 1..Len(calls) : calls[k].op # "upsert"
  /\ saveTimers = {"t2"} /\ DOMAIN pendingSaves = {"t2"}

\* C39: each scheduled snapshot is dispatched at most once.  A step sends at
\* most one upsert for a record; the upsert carries the snapshot that is
\* scheduled and stands for at least one edit scheduled since the last
\* dispatch, and the step takes the snapshot out of pendingSaves and leaves
\* no live timer and no handle for the record: so the timer cancelled by a
\* flush sends nothing after it, and a flush after the timer's dispatch does
\* not send the snapshot again.  A timer is live only for a snapshot that
\* is scheduled.
C39_DispatchedOnce ==
  [][\A id \in Ids :
        /\ Cardinality(UpsertsSent(id)) <= 1
        /\ \A k \in UpsertsSent(id) :
              /\ Sent[k].tag.n >= 1
              /\ id \in DOMAIN pendingSaves /\ Sent[k].arg = pendingSaves[id]
              /\ id \notin DOMAIN pendingSaves'
              /\ timeouts'[id] = 0 /\ id \notin saveTimers'
        /\ timeouts[id] > 0 => id \in DOMAIN pendingSaves]_vars

\* the timer of one record has dispatched its snapshot and the flush of a
\* later change of date has dispatched the snapshot of the other record
\* only; both upserts are on their way and no timer is live
C39_Witness ==
  /\ Len(effs) = 2 /\ effs[2].stage = "flush" /\ effs[2].n = 1
  /\ \E j, k \in 1..Len(inbox) :
        /\ inbox[j].op = "upsert" /\ inbox[j].tag.k = "timer"
        /\ inbox[k].op = "upsert" /\ inbox[k].tag.k = "flush"
        /\ inbox[j].arg.id # inbox[k].arg.id
  /\ \A id \in Ids : timeouts[id] = 0
====
